---------------------------- MODULE Spec2Model ----------------------------
(***************************************************************************)
(* A model of the short-strangle trading engine                            *)
(* (backend/app/services/trading_engine.py).                               *)
(*                                                                         *)
(* Numbers.  Money amounts are counted in hundredths of a currency unit    *)
(* and percentages in hundredths of a percent, so that the value 1.0 of    *)
(* the program is 100 here and 0.5 is 50.  Every input set below keeps the *)
(* divisions of the program exact in these units.                          *)
(***************************************************************************)
EXTENDS Integers, Sequences, FiniteSets, TLC

VARIABLES
    \* ---- exit-rule evaluation on its own (SpecExit)
    ex_in,          \* the arguments of one _check_exit_conditions call
    ex_out,         \* its result, "unset" before the call
    \* ---- one run of _execute_order_strategy (SpecOrder)
    os_pc,          \* where the run is: attempt, wait, cancel, market, mwait, done
    os_attempt,     \* the loop variable attempt
    os_remaining,   \* remaining
    os_total,       \* total_filled
    os_tried,       \* number of place_order calls made so far
    os_rejections,  \* HTTP status of each place_order call that raised, in order
    os_last,        \* last_status of the current wait: the fill it showed, -1 if none
    os_orders,      \* the orders the exchange accepted, in order of placement
    os_out,         \* the OrderStrategyOutcome, NoOutcome before the return
    \* ---- the engine: start, stop, panic_close, runtime_snapshot, _run_loop (Spec)
    lock,           \* holder of self._lock: "free", "stop" or "panic"
    op,             \* the lock holder's position and local variables
    task,           \* self._task: the number of the task, 0 for None
    state,          \* self._state: the number of the runtime state, 0 for None
    client,         \* self._client is not None
    stop_event,     \* self._stop_event.is_set()
    started,        \* how many sessions start() has created
    result,         \* what the last call of start, stop, panic_close or runtime_snapshot gave
    tk,             \* per task: position in _run_loop and local variables
    states,         \* per session: the fields of its StrategyRuntimeState
    \* ---- control("start") and the entry of its session (SpecEntry)
    en_settings,    \* delta_live_trading and client.has_credentials
    en_exchange,    \* the positions the account held before the entry
    en_entered,     \* per leg symbol: what the entry's orders filled on the exchange
    en_pc,          \* control, waiting, select, legs, spot, done, failed
    en_live,        \* the local live_trading_enabled of _execute_entry
    en_leg,         \* the index of the contract the loop over the legs is at
    en_live_orders, \* the local live_orders
    en_outcomes,    \* the outcome of every _place_live_order call made
    en_summary,     \* state.entry_summary: status, mode, mode_reason
    en_active,      \* state.active
    en_positions,   \* session.positions
    en_orders,      \* session.orders
    en_result,      \* what control("start") returned
    \* ---- the clock of one session: schedule of entry and exit (SpecSchedule)
    sc_now,         \* the time, in ticks since midnight (IST) of day 0
    sc_config,      \* trade_time_ist and exit_time_ist, as ticks of the day
    sc_pc,          \* idle, waiting, active, exited
    sc_started_at,  \* when start() was called, -1 before
    sc_scheduled,   \* state.scheduled_entry_at, -1 for None
    sc_entered_at,  \* when _execute_entry ran, -1 before
    sc_monitored_at,   \* snapshot_time of the last monitoring cycle, -1 before
    sc_planned_exit_at, \* planned_exit_at of the last monitoring cycle, -1 before
    \* ---- one call of _select_contracts (SpecSelect)
    sel_in,         \* the tickers and the configured expiry
    sel_out,        \* what the call returned, NoSelection before
    \* ---- the P&L of one position row (SpecPnl)
    pl_in,          \* the row, a price and the contract sizes
    pl_out,         \* realized and unrealized P&L at that price, NoPnl before
    \* ---- the quote cache of OptionPriceStream (SpecQuote)
    qs_quotes,      \* _latest_quotes: per symbol the cached quote, NoQuote if none
    qs_prev,        \* _latest_quotes as it was before the last message
    qs_msg,         \* the ticker message handled last, NoMessage before
    \* ---- one run of _force_exit (SpecForceExit)
    fe_cfg,         \* delta_live_trading and the mode of the entry summary
    fe_pc,          \* start, close, record, spot, persist, done
    fe_now,         \* the clock: datetime.now(UTC), 0 before the run
    fe_leg,         \* the index of the position the closing loop is at
    fe_positions,   \* session.positions
    fe_closings,    \* the list _close_live_positions returns
    fe_submitted,   \* the symbols a closing order was sent to the exchange for
    fe_status,      \* session.status
    \* ---- the valuation of one position in a monitoring cycle (SpecValue)
    vl_in,          \* the stored analytics, the stream and the ticker of the exchange
    vl_out,         \* the mark the position was valued at, NoValuation before
    \* ---- one call of _normalize_price (SpecRound)
    rd_in,          \* candidate and tick_size, in thousandths
    rd_out,         \* the result, Null before
    \* ---- the limit price of one attempt of the order strategy (SpecLimit)
    lp_in,          \* side, best bid and ask, tick_size and mid price, in thousandths
    lp_out,         \* the price computed and the price submitted, NoLimitPrice before
    \* ---- the reconnect loop of OptionPriceStream and its callers (SpecStream)
    ws_task,                \* self._task: 0 (None) or the task
    ws_lock,                \* self._lock: 0 (free) or the stop() call holding it
    ws_stop_event,          \* self._stop_event
    ws_subscription_event,  \* self._subscription_event
    ws_conn,                \* self._conn, and with it self._stream_started_at: 0 (None) or the run whose connection it is
    ws_subscriptions,       \* self._subscriptions
    ws_latest_quotes,       \* the symbols with a quote in self._latest_quotes
    ws_last_quote_at,       \* self._last_quote_at is set
    ws_stale_alert_active,  \* self._stale_alert_active
    ws_runs,                \* per task of _run: its position, backoff and connection
    ws_stops                \* per call of stop(): its position and the task it waits for

exitVars == <<ex_in, ex_out>>
orderVars == <<os_pc, os_attempt, os_remaining, os_total, os_tried, os_rejections, os_last, os_orders, os_out>>
engineVars == <<lock, op, task, state, client, stop_event, started, result, tk, states>>
scheduleVars == <<sc_now, sc_config, sc_pc, sc_started_at, sc_scheduled, sc_entered_at, sc_monitored_at, sc_planned_exit_at>>
selectVars == <<sel_in, sel_out>>
pnlVars == <<pl_in, pl_out>>
calcVars == <<scheduleVars, selectVars, pnlVars>>
quoteVars == <<qs_quotes, qs_prev, qs_msg>>
forceVars == <<fe_cfg, fe_pc, fe_now, fe_leg, fe_positions, fe_closings, fe_submitted, fe_status>>
valueVars == <<vl_in, vl_out>>
roundVars == <<rd_in, rd_out>>
limitVars == <<lp_in, lp_out>>
streamVars == <<ws_task, ws_lock, ws_stop_event, ws_subscription_event, ws_conn, ws_subscriptions, ws_latest_quotes, ws_last_quote_at, ws_stale_alert_active, ws_runs, ws_stops>>
otherVars == <<roundVars, limitVars, streamVars>>
marketVars == <<quoteVars, forceVars, valueVars, otherVars>>
entryVars == <<en_settings, en_exchange, en_entered, en_pc, en_live, en_leg, en_live_orders, en_outcomes, en_summary, en_active, en_positions, en_orders, en_result>>
vars == <<ex_in, ex_out, os_pc, os_attempt, os_remaining, os_total, os_tried, os_rejections, os_last, os_orders, os_out, lock, op, task, state, client, stop_event, started, result, tk, states, en_settings, en_exchange, en_entered, en_pc, en_live, en_leg, en_live_orders, en_outcomes, en_summary, en_active, en_positions, en_orders, en_result, sc_now, sc_config, sc_pc, sc_started_at, sc_scheduled, sc_entered_at, sc_monitored_at, sc_planned_exit_at, sel_in, sel_out, pl_in, pl_out, qs_quotes, qs_prev, qs_msg, fe_cfg, fe_pc, fe_now, fe_leg, fe_positions, fe_closings, fe_submitted, fe_status, vl_in, vl_out, rd_in, rd_out, lp_in, lp_out, ws_task, ws_lock, ws_stop_event, ws_subscription_event, ws_conn, ws_subscriptions, ws_latest_quotes, ws_last_quote_at, ws_stale_alert_active, ws_runs, ws_stops>>

(***************************************************************************)
(* Pure helpers of TradingEngine                                           *)
(***************************************************************************)

\* A wrong _normalize_percent: the value is taken as it is configured.
normalize_percent_raw(value) == value

\* _normalize_percent: a value strictly between 0 and 1 is read as a
\* fraction and multiplied by 100; anything else is returned unchanged.
normalize_percent(value) ==
    IF 0 < value /\ value < 100 THEN value * 100 ELSE value

\* _percent_from_amount: (amount / notional) * 100, and 0 without notional.
percent_from_amount(amount, notional) ==
    IF notional <= 0 THEN 0 ELSE (amount * 100 * 100) \div notional

\* _check_exit_conditions, on the values it reads from the runtime state:
\* latest = pnl_history[-1], notional = _resolve_portfolio_notional(state).
check_exit_conditions(latest, notional, cfg_max_loss, cfg_max_profit, trailing_enabled, trailing_level) ==
    LET latest_pct == percent_from_amount(latest, notional)
        max_loss_pct == normalize_percent(cfg_max_loss)
        max_profit_pct == normalize_percent(cfg_max_profit)
        trailing_level_pct == normalize_percent(trailing_level)
        t1 == IF max_loss_pct > 0
                 /\ \/ (notional > 0 /\ latest_pct <= -max_loss_pct)
                    \/ (notional <= 0 /\ latest <= -max_loss_pct)
              THEN "max_loss" ELSE "none"
        t2 == IF t1 = "none" /\ max_profit_pct > 0
                 /\ \/ (notional > 0 /\ latest_pct >= max_profit_pct)
                    \/ (notional <= 0 /\ latest >= max_profit_pct)
              THEN "max_profit" ELSE t1
        t3 == IF t2 = "none" /\ trailing_enabled /\ trailing_level_pct > 0
                 /\ \/ (notional > 0 /\ latest_pct <= trailing_level_pct)
                    \/ (notional <= 0 /\ latest <= trailing_level_pct)
              THEN "trailing_sl" ELSE t2
    IN t3

(***************************************************************************)
(* The runtime state of a session and the functions that update it         *)
(***************************************************************************)

\* start() calls that create a session, and entries one session may make.
MaxStarts == 2
MaxEntries == 2

\* The TradingConfiguration of every session: max loss 10 %, max profit
\* 20 %, trailing stop with the rules 5 % -> 1 % and 10 % -> 3 %.
Config ==
    [max_loss_pct |-> 1000, max_profit_pct |-> 2000,
     trailing_sl_enabled |-> TRUE,
     trailing_rules |-> {<<500, 100>>, <<1000, 300>>}]

\* The contracts _select_contracts returns, with their mid prices; the
\* quantity and the contract size of every leg are 1.
SelectedContracts == [C |-> 1000, P |-> 1000]
Symbols == {"C", "P"}

\* The mark prices a monitoring cycle can read from the quote stream.
MarkQuotes ==
    {[C |-> 1000, P |-> 1000], [C |-> 998, P |-> 1000], [C |-> 900, P |-> 1000],
     [C |-> 900, P |-> 900], [C |-> 1300, P |-> 1000]}

Max(a, b) == IF a >= b THEN a ELSE b

\* An empty last_monitor_snapshot.
NoSnapshot ==
    [has_limits |-> FALSE, limits_level |-> 0,
     has_trailing |-> FALSE, level |-> 0, max_profit_seen |-> 0,
     max_profit_seen_pct |-> 0, max_drawdown_seen |-> 0,
     max_drawdown_seen_pct |-> 0,
     has_totals |-> FALSE, notional |-> 0]

\* StrategyRuntimeState as start() constructs it.
NewState ==
    [active |-> FALSE, exit_reason |-> "", positions |-> <<>>,
     mark_prices |-> [C |-> 0, P |-> 0],
     has_pnl |-> FALSE, latest |-> 0, portfolio_notional |-> 0,
     max_profit_seen |-> 0, max_profit_seen_pct |-> 0,
     max_drawdown_seen |-> 0, max_drawdown_seen_pct |-> 0,
     trailing_level |-> 0, entry_status |-> "waiting",
     last_monitor_snapshot |-> NoSnapshot]

\* The PositionLedger row _record_simulated_orders appends for a contract.
NewPosition(symbol) ==
    [symbol |-> symbol, entry_price |-> SelectedContracts[symbol],
     exit_time |-> FALSE, exit_price |-> 0]

\* _calculate_unrealized for an open short leg, the stored realized P&L for
\* a closed one.
PositionPnl(p, marks) ==
    IF p.exit_time THEN p.entry_price - p.exit_price
    ELSE p.entry_price - marks[p.symbol]

RECURSIVE TotalPnl(_, _)
TotalPnl(positions, marks) ==
    IF positions = <<>> THEN 0
    ELSE PositionPnl(Head(positions), marks) + TotalPnl(Tail(positions), marks)

RECURSIVE TotalNotional(_)
TotalNotional(positions) ==
    IF positions = <<>> THEN 0
    ELSE Head(positions).entry_price + TotalNotional(Tail(positions))

\* _resolve_portfolio_notional
resolve_portfolio_notional(s) ==
    IF s.portfolio_notional > 0 THEN s.portfolio_notional
    ELSE TotalNotional(s.positions)

\* The rule loop of _update_trailing_state: the highest stop level among
\* the rules whose trigger the highest profit % seen has reached.
RECURSIVE MaxOf(_)
MaxOf(S) ==
    IF S = {} THEN 0
    ELSE LET x == CHOOSE y \in S : TRUE IN Max(x, MaxOf(S \ {x}))

applicable_level(max_profit_seen_pct, rules) ==
    MaxOf({normalize_percent(r[2]) : r \in
              {q \in rules : max_profit_seen_pct >= normalize_percent(q[1])}})

\* The trailing level _update_trailing_state leaves in the state.
update_trailing_level(s, max_profit_seen_pct) ==
    IF Config.trailing_sl_enabled
    THEN applicable_level(max_profit_seen_pct, Config.trailing_rules)
    ELSE s.trailing_level

\* _update_trailing_state(latest_pnl, notional) on the state s.
update_trailing_state(s, latest_pnl, notional) ==
    LET latest_pct == percent_from_amount(latest_pnl, notional)
        mpp == Max(s.max_profit_seen_pct, latest_pct)
    IN [s EXCEPT
          !.max_profit_seen = Max(s.max_profit_seen, latest_pnl),
          !.max_profit_seen_pct = mpp,
          !.max_drawdown_seen = Max(s.max_drawdown_seen, Max(0, -latest_pnl)),
          !.max_drawdown_seen_pct = Max(s.max_drawdown_seen_pct, Max(0, -latest_pct)),
          !.trailing_level = update_trailing_level(s, mpp)]

\* _trailing_snapshot(state) written into a last_monitor_snapshot.
with_trailing_snapshot(snapshot, s) ==
    [snapshot EXCEPT
       !.has_trailing = TRUE,
       !.level = s.trailing_level,
       !.max_profit_seen = s.max_profit_seen,
       !.max_profit_seen_pct = s.max_profit_seen_pct,
       !.max_drawdown_seen = s.max_drawdown_seen,
       !.max_drawdown_seen_pct = s.max_drawdown_seen_pct]

\* The runtime_summary _monitor_positions stores as last_monitor_snapshot:
\* limits, totals of this cycle and the trailing snapshot.
monitor_snapshot(s, notional) ==
    [with_trailing_snapshot(NoSnapshot, s) EXCEPT
       !.has_limits = TRUE,
       !.limits_level = normalize_percent(s.trailing_level),
       !.has_totals = TRUE,
       !.notional = notional]

\* The exit price _finalize_session_summary gives a position: the one it
\* has, else the last mark price of its symbol, else its entry price.
exit_price_value(p, s) ==
    IF p.exit_price > 0 THEN p.exit_price
    ELSE IF s.mark_prices[p.symbol] > 0 THEN s.mark_prices[p.symbol]
    ELSE p.entry_price

\* _finalize_session_summary(state, reason)
finalize_session_summary(s, reason) ==
    LET positions == [i \in 1..Len(s.positions) |->
                         [s.positions[i] EXCEPT
                            !.exit_time = TRUE,
                            !.exit_price = exit_price_value(s.positions[i], s)]]
        why == IF reason # "" THEN reason
               ELSE IF s.exit_reason # "" THEN s.exit_reason ELSE "unknown"
    IN [s EXCEPT
          !.positions = positions,
          !.exit_reason = why,
          !.active = FALSE,
          !.last_monitor_snapshot =
              [with_trailing_snapshot(s.last_monitor_snapshot, s) EXCEPT
                 !.has_totals = TRUE,
                 !.notional = TotalNotional(s.positions)]]

\* What runtime_snapshot() writes back into the state it reports on: the
\* trailing level of the stored limits, the notional of the stored totals
\* (or of the positions), and the trailing figures of the stored snapshot
\* (or of the state), percentages passed through _normalize_percent.
runtime_snapshot(s) ==
    LET snap == s.last_monitor_snapshot
        s1 == IF snap.has_limits
              THEN [s EXCEPT !.trailing_level = normalize_percent(snap.limits_level)]
              ELSE s
        info == IF snap.has_trailing THEN snap
                ELSE with_trailing_snapshot(NoSnapshot, s1)
    IN [s1 EXCEPT
          !.portfolio_notional = IF snap.has_totals THEN snap.notional
                                 ELSE TotalNotional(s.positions),
          !.max_profit_seen = info.max_profit_seen,
          !.max_profit_seen_pct = normalize_percent(info.max_profit_seen_pct),
          !.max_drawdown_seen = info.max_drawdown_seen,
          !.max_drawdown_seen_pct = normalize_percent(info.max_drawdown_seen_pct),
          !.trailing_level = normalize_percent(info.level)]

\* A task that start() has not created yet, with the local variables of
\* the function it is in: state, reason (of _force_exit), totals; why the
\* loop ended and, for an exception, error names the one that ended it.
NewTask ==
    [pc |-> "unborn", state |-> 0, fx_state |-> 0, reason |-> "", pnl |-> 0,
     notional |-> 0, why |-> "", error |-> ""]

\* No call holds the lock.
NoOp == [pc |-> "none", state |-> 0, reason |-> "", task |-> 0]

Sessions == 1..MaxStarts

\* The engine as __init__ leaves it.
EngineIdle ==
    /\ lock = "free"
    /\ op = NoOp
    /\ task = 0
    /\ state = 0
    /\ client = FALSE
    /\ stop_event = FALSE
    /\ started = 0
    /\ result = [call |-> "none", value |-> "none", id |-> 0]
    /\ tk = [k \in Sessions |-> NewTask]
    /\ states = [k \in Sessions |-> NewState]

\* No exit-rule evaluation is under way.
ExitIdle ==
    /\ ex_in = [latest |-> 0, notional |-> 0, max_loss |-> 0,
                max_profit |-> 0, enabled |-> FALSE, level |-> 0]
    /\ ex_out = "unset"

\* The entry_summary fields the entry claims read, before start() sets them.
NoSummary == [status |-> "none", mode |-> "none", mode_reason |-> ""]

\* No control("start") has been issued.
EntryIdle ==
    /\ en_settings = [live |-> FALSE, credentials |-> FALSE]
    /\ en_exchange = <<>>
    /\ en_entered = [s \in Symbols |-> 0]
    /\ en_pc = "idle"
    /\ en_live = FALSE
    /\ en_leg = 0
    /\ en_live_orders = <<>>
    /\ en_outcomes = <<>>
    /\ en_summary = NoSummary
    /\ en_active = FALSE
    /\ en_positions = <<>>
    /\ en_orders = <<>>
    /\ en_result = "none"

\* No session clock runs.
ScheduleIdle ==
    /\ sc_now = 0
    /\ sc_config = [trade_time |-> 0, exit_time |-> 0]
    /\ sc_pc = "idle"
    /\ sc_started_at = -1
    /\ sc_scheduled = -1
    /\ sc_entered_at = -1
    /\ sc_monitored_at = -1
    /\ sc_planned_exit_at = -1

\* No contract, and the value of sel_out before _select_contracts returns.
NoContract == [contract_type |-> "", delta |-> 0, expiry_date |-> 0]
NoSelection == [status |-> "unset", call |-> NoContract, put |-> NoContract]

\* No contract selection is under way.
SelectIdle ==
    /\ sel_in = [tickers |-> {}, explicit |-> 0]
    /\ sel_out = NoSelection

\* No P&L has been computed.
NoPnl == [status |-> "unset", realized |-> 0, unrealized |-> 0]

\* No P&L computation is under way.
PnlIdle ==
    /\ pl_in = [origin |-> "none", side |-> "", quantity |-> 0, entry_price |-> 0,
                price |-> 0, config_contract_size |-> 0, analytics_contract_size |-> 0]
    /\ pl_out = NoPnl

CalcIdle == ScheduleIdle /\ SelectIdle /\ PnlIdle

\* A field a message or a quote does not have (None).
Null == -1

\* No quote is cached for a symbol; no message has been handled.
NoQuote == [symbol |-> "", mark_price |-> Null, best_bid |-> Null]
NoMessage ==
    [symbol |-> "", mark_price |-> Null, fair_price |-> Null, best_bid_price |-> Null,
     has_quotes |-> FALSE, quotes_best_bid |-> Null]

\* The quote stream as __init__ leaves it.
QuoteIdle ==
    /\ qs_quotes = [s \in Symbols |-> NoQuote]
    /\ qs_prev = [s \in Symbols |-> NoQuote]
    /\ qs_msg = NoMessage

\* No forced exit is being modelled.
ForceIdle ==
    /\ fe_cfg = [live |-> FALSE, mode |-> "none"]
    /\ fe_pc = "idle"
    /\ fe_now = 0
    /\ fe_leg = 0
    /\ fe_positions = <<>>
    /\ fe_closings = <<>>
    /\ fe_submitted = {}
    /\ fe_status = "none"

NoValuationInput ==
    [mode |-> "none", stored_mark |-> Null, has_quote |-> FALSE, quote_mark |-> Null,
     stale |-> FALSE, ticker_mark |-> Null]

NoValuation == [status |-> "unset", mark_price |-> Null, rest_called |-> FALSE]

\* No valuation is being modelled.
ValueIdle == vl_in = NoValuationInput /\ vl_out = NoValuation

\* No rounding is being modelled.
RoundIdle == rd_in = [candidate |-> 0, tick_size |-> 0] /\ rd_out = Null

NoLimitPrice == [status |-> "unset", candidate |-> 0, limit_price |-> 0]

\* No limit price is being modelled.
LimitIdle ==
    /\ lp_in = [side |-> "", best_bid |-> Null, best_ask |-> Null, tick_size |-> 0, mid_price |-> 0]
    /\ lp_out = NoLimitPrice

MaxTasks == 2
MaxStops == 1
MaxFailures == 6
MaxBackoff == 30

Tasks == 1..MaxTasks
StopCalls == 1..MaxStops

\* What the server can deliver: a ticker of a symbol, or bytes that do not
\* decode.
Undecodable == "bad"

\* A run of _run that was never created.
NoRun == [pc |-> "none", backoff |-> 1, failures |-> 0, ended |-> "none", waited |-> 0,
          open |-> FALSE, inbox |-> "", sent |-> {}]

NoStopCall == [pc |-> "idle", task |-> 0, conn |-> 0]

\* No stream is being modelled.
StreamIdle ==
    /\ ws_task = 0
    /\ ws_lock = 0
    /\ ws_stop_event = FALSE
    /\ ws_subscription_event = FALSE
    /\ ws_conn = 0
    /\ ws_subscriptions = {}
    /\ ws_latest_quotes = {}
    /\ ws_last_quote_at = FALSE
    /\ ws_stale_alert_active = FALSE
    /\ ws_runs = [k \in Tasks |-> NoRun]
    /\ ws_stops = [s \in StopCalls |-> NoStopCall]

OtherIdle == RoundIdle /\ LimitIdle /\ StreamIdle

MarketIdle == QuoteIdle /\ ForceIdle /\ ValueIdle /\ OtherIdle

(***************************************************************************)
(* SpecExit: one evaluation of the exit rules on arbitrary inputs          *)
(***************************************************************************)

ExitLatest == {-600, -60, -5, 0, 5, 20, 120}
ExitNotional == {0, 1000}
ExitMaxLoss == {0, 50, 500}
ExitMaxProfit == {0, 50, 1000}
ExitLevel == {0, 50, 200}

ExitInputs ==
    [latest : ExitLatest, notional : ExitNotional, max_loss : ExitMaxLoss,
     max_profit : ExitMaxProfit, enabled : BOOLEAN, level : ExitLevel]

NoOutcome == [success |-> FALSE, mode |-> "none", filled_size |-> 0]

\* The order strategy before it is called.
OrderIdle ==
    /\ os_pc = "idle"
    /\ os_attempt = 0
    /\ os_remaining = 0
    /\ os_total = 0
    /\ os_tried = 0
    /\ os_rejections = <<>>
    /\ os_last = -1
    /\ os_orders = <<>>
    /\ os_out = NoOutcome

InitExit ==
    /\ MarketIdle
    /\ ex_in \in ExitInputs
    /\ ex_out = "unset"
    /\ OrderIdle
    /\ EngineIdle
    /\ EntryIdle
    /\ CalcIdle

EvaluateExit ==
    /\ ex_out = "unset"
    /\ ex_out' = check_exit_conditions(ex_in.latest, ex_in.notional,
                     ex_in.max_loss, ex_in.max_profit, ex_in.enabled,
                     ex_in.level)
    /\ UNCHANGED ex_in
    /\ UNCHANGED <<orderVars, engineVars, entryVars, calcVars, marketVars>>

NextExit == EvaluateExit

SpecExit == InitExit /\ [][NextExit]_vars


(***************************************************************************)
(* SpecOrder: one run of _execute_order_strategy against an exchange       *)
(*                                                                         *)
(* The exchange is the environment.  An accepted order rests with state    *)
(* "open"; while the run is in progress the exchange may fill it further,  *)
(* close it or cancel it at any await of the run.  Quantities are whole    *)
(* contracts.                                                              *)
(***************************************************************************)

\* settings.delta_order_retry_attempts, read through max(1, ...)
MaxAttempts == 2
\* settings.delta_partial_fill_threshold, in percent of the order size
PartialFillThresholdPct == 10
\* the min_fill_ratio the market leg passes to _wait_for_fill_or_timeout
MarketMinFillPct == 0
\* the quantity the run is asked to trade
OrderQuantity == 20

\* The HTTP statuses with which the exchange rejects a place_order call: the
\* client raises httpx.HTTPStatusError for each of them.
RejectionStatuses == {401, 503}

\* The fill levels the exchange can bring an order of this size to: one
\* contract, half of the order, all of it.
FillLevels(size) == {1, size \div 2, size} \ {0}

NewOrder(kind, size) ==
    [kind |-> kind, size |-> size, filled |-> 0, st |-> "open",
     seen |-> -1, counted |-> 0, call |-> os_tried + 1]

Current == Len(os_orders)

\* The three returns inside the polling loop of _wait_for_fill_or_timeout,
\* on a status with this size, filled amount and state; fill_ratio >=
\* min_fill_ratio is compared in percent.
poll_verdict(size, filled, st, min_pct) ==
    IF st \in {"closed", "filled"} \/ filled >= size THEN "completed"
    ELSE IF filled * 100 >= min_pct * size THEN "completed"
    ELSE IF st \in {"cancelled", "rejected"} THEN "not_completed"
    ELSE "poll_again"

\* A run that stops after the first attempt it counts as completed.
after_limit_attempt_stop(remaining, attempt, completed) ==
    IF remaining <= 0 \/ completed THEN "done"
    ELSE IF attempt < MaxAttempts THEN "attempt"
    ELSE "market"

\* Where the run goes after a limit attempt that left this remaining
\* quantity: the return at remaining <= 1e-8, the next attempt of the for
\* loop, or the market fallback once the loop is exhausted.
\* A loop that gives up its limit attempts after the first one.
after_limit_attempt_once(remaining, attempt, completed) ==
    IF remaining <= 0 THEN "done" ELSE "market"

after_limit_attempt(remaining, attempt, completed) ==
    IF remaining <= 0 THEN "done"
    ELSE IF attempt < MaxAttempts THEN "attempt"
    ELSE "market"

\* The success flag of the market leg: completed and total_filled > 0.
market_success(completed, total_filled) == completed /\ total_filled > 0

InitOrder ==
    /\ MarketIdle
    /\ ExitIdle
    /\ EngineIdle
    /\ EntryIdle
    /\ CalcIdle
    /\ os_pc = "attempt"
    /\ os_attempt = 1
    /\ os_remaining = OrderQuantity
    /\ os_total = 0
    /\ os_tried = 0
    /\ os_rejections = <<>>
    /\ os_last = -1
    /\ os_orders = <<>>
    /\ os_out = NoOutcome

\* The step to the next attempt or to the market leg after an attempt that
\* did not end the run.
GoOn(pc) ==
    /\ os_pc' = pc
    /\ os_attempt' = IF pc = "attempt" THEN os_attempt + 1 ELSE os_attempt

\* place_order of a limit attempt, accepted or raising.
PlaceLimitOrder ==
    /\ os_pc = "attempt"
    /\ os_tried' = os_tried + 1
    /\ os_last' = -1
    /\ \/ /\ os_orders' = Append(os_orders, NewOrder("limit", os_remaining))
          /\ os_pc' = "wait"
          /\ UNCHANGED <<os_attempt, os_rejections>>
       \/ /\ \E status \in RejectionStatuses :
                os_rejections' = Append(os_rejections, status)
          /\ GoOn(after_limit_attempt(os_remaining, os_attempt, FALSE))
          /\ UNCHANGED os_orders
    /\ UNCHANGED <<os_remaining, os_total, os_out>>
    /\ UNCHANGED <<exitVars, engineVars, entryVars, calcVars, marketVars>>

\* The status of the order being waited for, as get_order shows it now.
Seen(o) == [o EXCEPT !.seen = o.filled]

\* The code after _wait_for_fill_or_timeout returned for a limit attempt:
\* a completed attempt is counted and may end the run, any other attempt is
\* sent to cancel_order.
LimitAttemptReturns(filled_amount, completed, orders) ==
    IF completed
    THEN LET total == os_total + filled_amount
             remaining == IF os_remaining - filled_amount > 0
                          THEN os_remaining - filled_amount ELSE 0
             pc == after_limit_attempt(remaining, os_attempt, TRUE)
         IN /\ os_total' = total
            /\ os_remaining' = remaining
            /\ os_orders' = [orders EXCEPT ![Current].counted = filled_amount]
            /\ GoOn(pc)
            /\ os_out' = IF pc = "done"
                         THEN [success |-> TRUE, mode |-> "limit_orders",
                               filled_size |-> total]
                         ELSE os_out
    ELSE /\ os_pc' = "cancel"
         /\ os_orders' = orders
         /\ UNCHANGED <<os_attempt, os_remaining, os_total, os_out>>

\* One get_order of the limit attempt's polling loop that returned a status.
PollLimitOrder ==
    /\ os_pc = "wait"
    /\ LET o == os_orders[Current]
           verdict == poll_verdict(o.size, o.filled, o.st, PartialFillThresholdPct)
           orders == [os_orders EXCEPT ![Current] = Seen(o)]
       IN IF verdict = "poll_again"
          THEN /\ os_last' = o.filled
               /\ os_orders' = orders
               /\ UNCHANGED <<os_pc, os_attempt, os_remaining, os_total, os_out>>
          ELSE /\ os_last' = -1
               /\ LimitAttemptReturns(o.filled, verdict = "completed", orders)
    /\ UNCHANGED <<os_tried, os_rejections>>
    /\ UNCHANGED <<exitVars, engineVars, entryVars, calcVars, marketVars>>

\* The result after the polling loop: the last status if there is one.
after_loop_filled(last) == IF last = -1 THEN 0 ELSE last
after_loop_completed(last, size, min_pct) == last # -1 /\ last * 100 >= min_pct * size

\* The polling loop of the limit attempt ends without a return: get_order
\* raised, or the deadline passed after a poll.
LimitWaitEnds ==
    /\ os_pc = "wait"
    /\ LET o == os_orders[Current]
       IN LimitAttemptReturns(after_loop_filled(os_last),
              after_loop_completed(os_last, o.size, PartialFillThresholdPct),
              os_orders)
    /\ os_last' = -1
    /\ UNCHANGED <<os_tried, os_rejections>>
    /\ UNCHANGED <<exitVars, engineVars, entryVars, calcVars, marketVars>>

\* cancel_order of an attempt that was not completed; the exception of a
\* failed cancel is caught and the order is left as it is.
CancelLimitOrder ==
    /\ os_pc = "cancel"
    /\ \/ os_orders' = [os_orders EXCEPT ![Current].st =
                           IF @ = "open" THEN "cancelled" ELSE @]
       \/ UNCHANGED os_orders
    /\ GoOn(after_limit_attempt(os_remaining, os_attempt, FALSE))
    /\ UNCHANGED <<os_remaining, os_total, os_tried, os_rejections, os_last, os_out>>
    /\ UNCHANGED <<exitVars, engineVars, entryVars, calcVars, marketVars>>

\* place_order of the market fallback, accepted or raising.
PlaceMarketOrder ==
    /\ os_pc = "market"
    /\ os_tried' = os_tried + 1
    /\ \/ /\ os_orders' = Append(os_orders, NewOrder("market", os_remaining))
          /\ os_pc' = "mwait"
          /\ UNCHANGED <<os_out, os_rejections>>
       \/ /\ \E status \in RejectionStatuses :
                os_rejections' = Append(os_rejections, status)
          /\ os_pc' = "done"
          /\ os_out' = [success |-> FALSE, mode |-> "failed",
                        filled_size |-> os_total]
          /\ UNCHANGED os_orders
    /\ UNCHANGED <<os_attempt, os_remaining, os_total, os_last>>
    /\ UNCHANGED <<exitVars, engineVars, entryVars, calcVars, marketVars>>

\* The code after _wait_for_fill_or_timeout returned for the market order.
MarketOrderReturns(filled_amount, completed) ==
    LET total == os_total + filled_amount
    IN /\ os_total' = total
       /\ os_pc' = "done"
       /\ os_out' = IF market_success(completed, total)
                    THEN [success |-> TRUE, mode |-> "market_fallback",
                          filled_size |-> total]
                    ELSE [success |-> FALSE, mode |-> "failed",
                          filled_size |-> total]

\* One get_order of the market order's polling loop that returned a status.
PollMarketOrder ==
    /\ os_pc = "mwait"
    /\ LET o == os_orders[Current]
           verdict == poll_verdict(o.size, o.filled, o.st, MarketMinFillPct)
       IN IF verdict = "poll_again"
          THEN /\ os_last' = o.filled
               /\ os_orders' = [os_orders EXCEPT ![Current] = Seen(o)]
               /\ UNCHANGED <<os_pc, os_total, os_out>>
          ELSE /\ os_last' = -1
               /\ os_orders' = [os_orders EXCEPT ![Current] =
                                    [Seen(o) EXCEPT !.counted = o.filled]]
               /\ MarketOrderReturns(o.filled, verdict = "completed")
    /\ UNCHANGED <<os_attempt, os_remaining, os_tried, os_rejections>>
    /\ UNCHANGED <<exitVars, engineVars, entryVars, calcVars, marketVars>>

\* The polling loop of the market order ends without a return.
MarketWaitEnds ==
    /\ os_pc = "mwait"
    /\ LET o == os_orders[Current]
       IN /\ MarketOrderReturns(after_loop_filled(os_last),
                 after_loop_completed(os_last, o.size, MarketMinFillPct))
          /\ os_orders' = [os_orders EXCEPT ![Current].counted =
                               after_loop_filled(os_last)]
    /\ os_last' = -1
    /\ UNCHANGED <<os_attempt, os_remaining, os_tried, os_rejections>>
    /\ UNCHANGED <<exitVars, engineVars, entryVars, calcVars, marketVars>>

\* The exchange fills an open order up to one of its fill levels.
ExchangeFills ==
    /\ \E i \in 1..Len(os_orders) : \E level \in FillLevels(os_orders[i].size) :
          /\ os_orders[i].st = "open"
          /\ level > os_orders[i].filled
          /\ os_orders' = [os_orders EXCEPT ![i].filled = level,
                              ![i].st = IF level = os_orders[i].size
                                        THEN "closed" ELSE "open"]
    /\ UNCHANGED <<os_pc, os_attempt, os_remaining, os_total, os_tried, os_rejections, os_last, os_out>>
    /\ UNCHANGED <<exitVars, engineVars, entryVars, calcVars, marketVars>>

\* The exchange ends an open order itself: it cancels a limit order, and it
\* closes or cancels what is left of an immediate-or-cancel market order.
ExchangeEnds ==
    /\ \E i \in 1..Len(os_orders) : \E st \in {"closed", "cancelled"} :
          /\ os_orders[i].st = "open"
          /\ os_orders[i].kind = "limit" => st = "cancelled"
          /\ os_orders' = [os_orders EXCEPT ![i].st = st]
    /\ UNCHANGED <<os_pc, os_attempt, os_remaining, os_total, os_tried, os_rejections, os_last, os_out>>
    /\ UNCHANGED <<exitVars, engineVars, entryVars, calcVars, marketVars>>

NextOrder ==
    \/ PlaceLimitOrder
    \/ PollLimitOrder
    \/ LimitWaitEnds
    \/ CancelLimitOrder
    \/ PlaceMarketOrder
    \/ PollMarketOrder
    \/ MarketWaitEnds
    \/ ExchangeFills
    \/ ExchangeEnds

SpecOrder == InitOrder /\ [][NextOrder]_vars

\* Every call the strategy awaits returns or raises, and the polling loop
\* of _wait_for_fill_or_timeout ends at its deadline: a step of the
\* strategy that stays possible is taken.
OrderFairness ==
    /\ WF_vars(PlaceLimitOrder)
    /\ WF_vars(LimitWaitEnds)
    /\ WF_vars(CancelLimitOrder)
    /\ WF_vars(PlaceMarketOrder)
    /\ WF_vars(MarketWaitEnds)

SpecOrderFair == SpecOrder /\ OrderFairness

(***************************************************************************)
(* Spec: the engine.  start, stop and panic_close run under self._lock;    *)
(* runtime_snapshot and the control-loop task do not.  Every action is one *)
(* stretch of code between two awaits.  The engine runs in simulation      *)
(* mode, the default of settings.delta_live_trading.                       *)
(***************************************************************************)

Init ==
    /\ MarketIdle
    /\ ExitIdle
    /\ OrderIdle
    /\ EngineIdle
    /\ EntryIdle
    /\ CalcIdle

Result(call, value, id) == [call |-> call, value |-> value, id |-> id]

\* A start() that never finds a strategy running.
start_allowed_always(t, tasks) == TRUE

\* The guard of start(): no task, or a task that is done.
start_allowed(t, tasks) == ~(t # 0 /\ tasks[t].pc # "done")

\* start() while a strategy runs: RuntimeError("Strategy already running").
StartRejected ==
    /\ lock = "free"
    /\ ~start_allowed(task, tk)
    /\ result' = Result("start", "already_running", 0)
    /\ UNCHANGED <<lock, op, task, state, client, stop_event, started, tk, states>>
    /\ UNCHANGED <<exitVars, orderVars, entryVars, calcVars, marketVars>>

\* start() with a configuration _validate_configuration rejects: the stop
\* signal is cleared before the expiry error is raised.
StartInvalid ==
    /\ lock = "free"
    /\ start_allowed(task, tk)
    /\ stop_event' = FALSE
    /\ result' = Result("start", "invalid_expiry", 0)
    /\ UNCHANGED <<lock, op, task, state, client, started, tk, states>>
    /\ UNCHANGED <<exitVars, orderVars, entryVars, calcVars, marketVars>>

\* The runtime states after start() made state k: the states of finished
\* sessions are no longer referenced and are dropped.
states_after_start(k) ==
    [j \in Sessions |-> IF j = k \/ tk[j].pc = "done" THEN NewState ELSE states[j]]

\* start(): a new client, a new runtime state and a new control-loop task.
Start ==
    /\ lock = "free"
    /\ start_allowed(task, tk)
    /\ started < MaxStarts
    /\ LET k == started + 1
       IN /\ started' = k
          /\ stop_event' = FALSE
          /\ client' = TRUE
          /\ state' = k
          /\ states' = states_after_start(k)
          /\ task' = k
          /\ tk' = [tk EXCEPT ![k] = [NewTask EXCEPT !.pc = "loop"]]
          /\ result' = Result("start", "started", k)
    /\ UNCHANGED <<lock, op>>
    /\ UNCHANGED <<exitVars, orderVars, entryVars, calcVars, marketVars>>

\* stop() without a task returns at once.
StopNoop ==
    /\ lock = "free"
    /\ task = 0
    /\ result' = Result("stop", "noop", 0)
    /\ UNCHANGED <<lock, op, task, state, client, stop_event, started, tk, states>>
    /\ UNCHANGED <<exitVars, orderVars, entryVars, calcVars, marketVars>>

\* stop(): set the stop signal and await the task.
\* A stop() that goes on to signal and await whether or not a task exists.
StopBeginUnguarded ==
    /\ lock = "free"
    /\ lock' = "stop"
    /\ stop_event' = TRUE
    /\ op' = [NoOp EXCEPT !.pc = "await_task", !.task = task]
    /\ UNCHANGED <<task, state, client, started, result, tk, states>>
    /\ UNCHANGED <<exitVars, orderVars, entryVars, calcVars, marketVars>>

StopBegin ==
    /\ lock = "free"
    /\ task # 0
    /\ lock' = "stop"
    /\ stop_event' = TRUE
    /\ op' = [NoOp EXCEPT !.pc = "await_task", !.task = task]
    /\ UNCHANGED <<task, state, client, started, result, tk, states>>
    /\ UNCHANGED <<exitVars, orderVars, entryVars, calcVars, marketVars>>

\* stop() after the awaited task is done: forget task and state, close and
\* forget the client.
StopEnd ==
    /\ lock = "stop"
    /\ tk[op.task].pc = "done"
    /\ task' = 0
    /\ state' = 0
    /\ client' = FALSE
    /\ lock' = "free"
    /\ op' = NoOp
    /\ result' = Result("stop", "stopped", op.task)
    /\ UNCHANGED <<stop_event, started, tk, states>>
    /\ UNCHANGED <<exitVars, orderVars, entryVars, calcVars, marketVars>>

\* reason = state.exit_reason or "forced_exit", in _force_exit.
force_exit_reason(s) == IF s.exit_reason # "" THEN s.exit_reason ELSE "forced_exit"

\* panic_close() without a task or without a state returns None.
PanicNoop ==
    /\ lock = "free"
    /\ task = 0 \/ state = 0
    /\ result' = Result("panic_close", "noop", 0)
    /\ UNCHANGED <<lock, op, task, state, client, stop_event, started, tk, states>>
    /\ UNCHANGED <<exitVars, orderVars, entryVars, calcVars, marketVars>>

\* panic_close(): mark the state and enter _force_exit, up to its first
\* await (_ensure_session_relationships).
PanicBegin ==
    /\ lock = "free"
    /\ task # 0 /\ state # 0
    /\ lock' = "panic"
    /\ states' = [states EXCEPT
                    ![state].exit_reason = IF @ = "" THEN "panic_close" ELSE @,
                    ![state].active = FALSE]
    /\ op' = [NoOp EXCEPT !.pc = "fx_relationships", !.state = state]
    /\ UNCHANGED <<task, state, client, stop_event, started, result, tk>>
    /\ UNCHANGED <<exitVars, orderVars, entryVars, calcVars, marketVars>>

\* _force_exit of panic_close: the reason is read, then _refresh_spot_state
\* is awaited.
PanicForceExitReason ==
    /\ lock = "panic"
    /\ op.pc = "fx_relationships"
    /\ op' = [op EXCEPT !.pc = "fx_spot", !.reason = force_exit_reason(states[op.state])]
    /\ UNCHANGED <<lock, task, state, client, stop_event, started, result, tk, states>>
    /\ UNCHANGED <<exitVars, orderVars, entryVars, calcVars, marketVars>>

\* _force_exit of panic_close: _finalize_session_summary, then the await of
\* _persist_session_state.
PanicForceExitFinalize ==
    /\ lock = "panic"
    /\ op.pc = "fx_spot"
    /\ states' = [states EXCEPT ![op.state] = finalize_session_summary(@, op.reason)]
    /\ op' = [op EXCEPT !.pc = "fx_persist"]
    /\ UNCHANGED <<lock, task, state, client, stop_event, started, result, tk>>
    /\ UNCHANGED <<exitVars, orderVars, entryVars, calcVars, marketVars>>

\* panic_close() after _force_exit: cooldown, stop signal, await self._task;
\* awaiting None raises TypeError and the call ends there.
PanicAfterForceExit ==
    /\ lock = "panic"
    /\ op.pc = "fx_persist"
    /\ states' = [states EXCEPT ![op.state].entry_status = "cooldown"]
    /\ stop_event' = TRUE
    /\ IF task = 0
       THEN /\ lock' = "free"
            /\ op' = NoOp
            /\ result' = Result("panic_close", "raised", op.state)
       ELSE /\ op' = [op EXCEPT !.pc = "await_task", !.task = task]
            /\ UNCHANGED <<lock, result>>
    /\ UNCHANGED <<task, state, client, started, tk>>
    /\ UNCHANGED <<exitVars, orderVars, entryVars, calcVars, marketVars>>

\* panic_close() after the awaited task is done: forget task and state,
\* close and forget the client, return the strategy id.
PanicEnd ==
    /\ lock = "panic"
    /\ op.pc = "await_task"
    /\ tk[op.task].pc = "done"
    /\ task' = 0
    /\ state' = 0
    /\ client' = FALSE
    /\ lock' = "free"
    /\ op' = NoOp
    /\ result' = Result("panic_close", "closed", op.state)
    /\ UNCHANGED <<stop_event, started, tk, states>>
    /\ UNCHANGED <<exitVars, orderVars, entryVars, calcVars, marketVars>>

\* The status runtime_snapshot() reports for a state: "live" when the state
\* is active, else the status of its entry summary.
snapshot_status(s) ==
    LET entry_status == IF s.entry_status \in {"waiting", "entering", "live", "cooldown"}
                        THEN s.entry_status ELSE "waiting"
    IN IF s.active THEN "live" ELSE entry_status

\* TradingService.runtime_snapshot on an engine snapshot of status idle: the
\* status of the runtime metadata of the latest session row, if that row is
\* running; the engine writes that status in start() only, as "waiting".
service_status(engine_status, latest_running) ==
    IF engine_status = "idle" /\ latest_running THEN "waiting" ELSE engine_status

\* runtime_snapshot() on a running session.
RuntimeSnapshot ==
    /\ state # 0
    /\ states' = [states EXCEPT ![state] = runtime_snapshot(@)]
    /\ result' = Result("runtime_snapshot",
                        service_status(snapshot_status(states[state]), TRUE), state)
    /\ UNCHANGED <<lock, op, task, state, client, stop_event, started, tk>>
    /\ UNCHANGED <<exitVars, orderVars, entryVars, calcVars, marketVars>>

\* runtime_snapshot() without a state: the engine reports idle, and the
\* service looks at the latest session row, which is running or stopped.
RuntimeSnapshotIdle ==
    /\ state = 0
    /\ \E latest_running \in BOOLEAN :
          result' = Result("runtime_snapshot", service_status("idle", latest_running), 0)
    /\ UNCHANGED <<lock, op, task, state, client, stop_event, started, tk, states>>
    /\ UNCHANGED <<exitVars, orderVars, entryVars, calcVars, marketVars>>

\* An exception leaves the while loop of _run_loop: it is logged by the
\* except clause around the loop and the finally clause runs.
Raised(t) == [t EXCEPT !.pc = "cleanup", !.why = "exception"]

\* The loop condition found the stop signal set.
LoopExit(k) ==
    /\ tk[k].pc = "loop"
    /\ stop_event
    /\ tk' = [tk EXCEPT ![k].pc = "cleanup", ![k].why = "stop_event"]
    /\ UNCHANGED <<lock, op, task, state, client, stop_event, started, result, states>>
    /\ UNCHANGED <<exitVars, orderVars, entryVars, calcVars, marketVars>>

\* Not active and not yet ready for entry: sleep 5 seconds and loop.
WaitForEntry(k) ==
    /\ tk[k].pc = "loop"
    /\ ~stop_event
    /\ state # 0
    /\ ~states[state].active
    /\ UNCHANGED <<lock, op, task, state, client, stop_event, started, result, tk, states>>
    /\ UNCHANGED <<exitVars, orderVars, entryVars, calcVars, marketVars>>

\* Not active and ready: _execute_entry up to the await of get_tickers; in
\* simulation mode _should_skip_entry_due_to_positions returns at once.
\* Without a client no ticker is fetched and _select_contracts raises.
BeginEntry(k) ==
    /\ tk[k].pc = "loop"
    /\ ~stop_event
    /\ state # 0
    /\ ~states[state].active
    /\ Len(states[state].positions) < 2 * MaxEntries
    /\ states' = [states EXCEPT ![state].entry_status = "entering"]
    /\ tk' = [tk EXCEPT ![k] = IF client
                               THEN [@ EXCEPT !.pc = "entry_tickers", !.state = state]
                               ELSE Raised(@)]
    /\ UNCHANGED <<lock, op, task, state, client, stop_event, started, result>>
    /\ UNCHANGED <<exitVars, orderVars, entryVars, calcVars, marketVars>>

\* The second get_tickers call, made after the filtered one failed, raises.
EntryFails(k) ==
    /\ tk[k].pc = "entry_tickers"
    /\ tk' = [tk EXCEPT ![k] = Raised(@)]
    /\ UNCHANGED <<lock, op, task, state, client, stop_event, started, result, states>>
    /\ UNCHANGED <<exitVars, orderVars, entryVars, calcVars, marketVars>>

\* _select_contracts finds no eligible contract and raises RuntimeError;
\* the exception leaves _execute_entry and is caught, and logged, by the
\* except clause of _run_loop.
SelectionFails(k) ==
    /\ tk[k].pc = "entry_tickers"
    /\ tk' = [tk EXCEPT ![k] = [Raised(@) EXCEPT !.error = "no_eligible_contracts"]]
    /\ UNCHANGED <<lock, op, task, state, client, stop_event, started, result, states>>
    /\ UNCHANGED <<exitVars, orderVars, entryVars, calcVars, marketVars>>

\* Contracts are selected and _record_simulated_orders appends a short
\* position per contract at its mid price to the session of self._state,
\* then awaits _persist_session_state and _refresh_spot_state.
EntryRecord(k) ==
    /\ tk[k].pc = "entry_tickers"
    /\ IF state = 0
       THEN /\ tk' = [tk EXCEPT ![k] = Raised(@)]
            /\ UNCHANGED states
       ELSE /\ states' = [states EXCEPT
                            ![state].positions = @ \o <<NewPosition("C"), NewPosition("P")>>,
                            ![state].mark_prices = SelectedContracts]
            /\ tk' = [tk EXCEPT ![k].pc = "entry_persist"]
    /\ UNCHANGED <<lock, op, task, state, client, stop_event, started, result>>
    /\ UNCHANGED <<exitVars, orderVars, entryVars, calcVars, marketVars>>

\* _execute_entry ends: state.active = True, status live; _run_loop goes on
\* into _monitor_positions, up to the await of _refresh_position_analytics.
EntryDone(k) ==
    /\ tk[k].pc = "entry_persist"
    /\ states' = [states EXCEPT ![tk[k].state].active = TRUE,
                                ![tk[k].state].entry_status = "live"]
    /\ tk' = [tk EXCEPT ![k] = IF state = 0 THEN Raised(@)
                               ELSE [@ EXCEPT !.pc = "mon_refresh", !.state = state]]
    /\ UNCHANGED <<lock, op, task, state, client, stop_event, started, result>>
    /\ UNCHANGED <<exitVars, orderVars, entryVars, calcVars, marketVars>>

\* Active: _monitor_positions up to the await of _refresh_position_analytics.
BeginMonitor(k) ==
    /\ tk[k].pc = "loop"
    /\ ~stop_event
    /\ state # 0
    /\ states[state].active
    /\ tk' = [tk EXCEPT ![k].pc = "mon_refresh", ![k].state = state]
    /\ UNCHANGED <<lock, op, task, state, client, stop_event, started, result, states>>
    /\ UNCHANGED <<exitVars, orderVars, entryVars, calcVars, marketVars>>

\* _refresh_position_analytics raises (price stream start or subscription).
MonitorFails(k) ==
    /\ tk[k].pc = "mon_refresh"
    /\ tk' = [tk EXCEPT ![k] = Raised(@)]
    /\ UNCHANGED <<lock, op, task, state, client, stop_event, started, result, states>>
    /\ UNCHANGED <<exitVars, orderVars, entryVars, calcVars, marketVars>>

HasOpen(positions) == \E i \in 1..Len(positions) : ~positions[i].exit_time

\* The state after _refresh_position_analytics read these marks and
\* _monitor_positions appended the P&L and stored the notional.
refreshed(s, marks) ==
    [s EXCEPT !.mark_prices = marks,
              !.has_pnl = TRUE,
              !.latest = TotalPnl(s.positions, marks),
              !.portfolio_notional = TotalNotional(s.positions)]

\* _refresh_position_analytics returns the totals at the marks of the quote
\* stream; the P&L is appended to pnl_history, the notional stored, and
\* _update_trailing_state run on self._state; then _refresh_spot_state is
\* awaited.
MonitorRefresh(k) ==
    /\ tk[k].pc = "mon_refresh"
    /\ \E quote \in MarkQuotes :
          LET s == tk[k].state
              marks == IF HasOpen(states[s].positions) THEN quote
                       ELSE states[s].mark_prices
              pnl == TotalPnl(states[s].positions, marks)
              notional == TotalNotional(states[s].positions)
              after == [states EXCEPT ![s] = refreshed(@, marks)]
          IN /\ states' = IF state = 0 THEN after
                          ELSE [after EXCEPT ![state] = update_trailing_state(@, pnl, notional)]
             /\ tk' = [tk EXCEPT ![k].pc = "mon_spot", ![k].pnl = pnl,
                                 ![k].notional = notional]
    /\ UNCHANGED <<lock, op, task, state, client, stop_event, started, result>>
    /\ UNCHANGED <<exitVars, orderVars, entryVars, calcVars, marketVars>>

\* _monitor_positions stores the runtime summary as last_monitor_snapshot
\* and awaits _persist_session_state.
MonitorSnapshot(k) ==
    /\ tk[k].pc = "mon_spot"
    /\ states' = [states EXCEPT ![tk[k].state].last_monitor_snapshot =
                     monitor_snapshot(states[tk[k].state], tk[k].notional)]
    /\ tk' = [tk EXCEPT ![k].pc = "mon_persist"]
    /\ UNCHANGED <<lock, op, task, state, client, stop_event, started, result>>
    /\ UNCHANGED <<exitVars, orderVars, entryVars, calcVars, marketVars>>

\* _check_exit_conditions() on self._state.
exit_reason_now ==
    IF state = 0 THEN "none"
    ELSE IF ~states[state].has_pnl THEN "none"
    ELSE check_exit_conditions(states[state].latest,
             resolve_portfolio_notional(states[state]), Config.max_loss_pct,
             Config.max_profit_pct, Config.trailing_sl_enabled,
             states[state].trailing_level)

\* No exit condition matches: the cycle ends and the loop sleeps.
MonitorKeeps(k) ==
    /\ tk[k].pc = "mon_persist"
    /\ exit_reason_now = "none"
    /\ tk' = [tk EXCEPT ![k].pc = "loop"]
    /\ UNCHANGED <<lock, op, task, state, client, stop_event, started, result, states>>
    /\ UNCHANGED <<exitVars, orderVars, entryVars, calcVars, marketVars>>

\* An exit condition matches: the reason is stored and _force_exit entered,
\* up to its first await.
MonitorExits(k) ==
    /\ tk[k].pc = "mon_persist"
    /\ exit_reason_now # "none"
    /\ states' = [states EXCEPT ![tk[k].state].exit_reason = exit_reason_now]
    /\ tk' = [tk EXCEPT ![k].pc = "tfx_relationships", ![k].fx_state = state]
    /\ UNCHANGED <<lock, op, task, state, client, stop_event, started, result>>
    /\ UNCHANGED <<exitVars, orderVars, entryVars, calcVars, marketVars>>

\* _force_exit of the task: the reason is read, _refresh_spot_state awaited.
TaskForceExitReason(k) ==
    /\ tk[k].pc = "tfx_relationships"
    /\ tk' = [tk EXCEPT ![k].pc = "tfx_spot",
                        ![k].reason = force_exit_reason(states[tk[k].fx_state])]
    /\ UNCHANGED <<lock, op, task, state, client, stop_event, started, result, states>>
    /\ UNCHANGED <<exitVars, orderVars, entryVars, calcVars, marketVars>>

\* _force_exit of the task: _finalize_session_summary, then the await of
\* _persist_session_state.
TaskForceExitFinalize(k) ==
    /\ tk[k].pc = "tfx_spot"
    /\ states' = [states EXCEPT ![tk[k].fx_state] =
                     finalize_session_summary(@, tk[k].reason)]
    /\ tk' = [tk EXCEPT ![k].pc = "tfx_persist"]
    /\ UNCHANGED <<lock, op, task, state, client, stop_event, started, result>>
    /\ UNCHANGED <<exitVars, orderVars, entryVars, calcVars, marketVars>>

\* _monitor_positions after _force_exit: inactive, cooldown, stop signal;
\* the loop then sleeps.
TaskAfterForceExit(k) ==
    /\ tk[k].pc = "tfx_persist"
    /\ states' = [states EXCEPT ![tk[k].state].active = FALSE,
                                ![tk[k].state].entry_status = "cooldown"]
    /\ stop_event' = TRUE
    /\ tk' = [tk EXCEPT ![k].pc = "loop"]
    /\ UNCHANGED <<lock, op, task, state, client, started, result>>
    /\ UNCHANGED <<exitVars, orderVars, entryVars, calcVars, marketVars>>

\* The finally clause of _run_loop awaits _cleanup: the price stream is
\* stopped and the client's close awaited.
Cleanup(k) ==
    /\ tk[k].pc = "cleanup"
    /\ tk' = [tk EXCEPT ![k].pc = "closing"]
    /\ UNCHANGED <<lock, op, task, state, client, stop_event, started, result, states>>
    /\ UNCHANGED <<exitVars, orderVars, entryVars, calcVars, marketVars>>

\* _cleanup forgets the client; _run_loop forgets task and state and ends.
Finish(k) ==
    /\ tk[k].pc = "closing"
    /\ client' = FALSE
    /\ task' = 0
    /\ state' = 0
    /\ tk' = [tk EXCEPT ![k] = [NewTask EXCEPT !.pc = "done", !.why = tk[k].why,
                                                   !.error = tk[k].error]]
    /\ UNCHANGED <<lock, op, stop_event, started, result, states>>
    /\ UNCHANGED <<exitVars, orderVars, entryVars, calcVars, marketVars>>

RunLoop(k) ==
    \/ LoopExit(k)
    \/ WaitForEntry(k)
    \/ BeginEntry(k)
    \/ EntryFails(k)
    \/ SelectionFails(k)
    \/ EntryRecord(k)
    \/ EntryDone(k)
    \/ BeginMonitor(k)
    \/ MonitorFails(k)
    \/ MonitorRefresh(k)
    \/ MonitorSnapshot(k)
    \/ MonitorKeeps(k)
    \/ MonitorExits(k)
    \/ TaskForceExitReason(k)
    \/ TaskForceExitFinalize(k)
    \/ TaskAfterForceExit(k)
    \/ Cleanup(k)
    \/ Finish(k)

Next ==
    \/ StartRejected
    \/ StartInvalid
    \/ Start
    \/ StopNoop
    \/ StopBegin
    \/ StopEnd
    \/ PanicNoop
    \/ PanicBegin
    \/ PanicForceExitReason
    \/ PanicForceExitFinalize
    \/ PanicAfterForceExit
    \/ PanicEnd
    \/ RuntimeSnapshot
    \/ RuntimeSnapshotIdle
    \/ \E k \in Sessions : RunLoop(k)

Spec == Init /\ [][Next]_vars

(***************************************************************************)
(* SpecEntry: control("start") and the entry of the session it creates,    *)
(* with exchange credentials and live trading switched on or off.  The     *)
(* exchange is the environment: it holds the account's positions, answers  *)
(* or fails the position queries, and gives every live leg one of the      *)
(* outcomes a run of _execute_order_strategy can end with.                 *)
(***************************************************************************)

\* The two legs in the order _select_contracts returns them.
Legs == <<"C", "P">>

\* What the account can hold on the exchange when control("start") is
\* called: nothing, a short position in the contract the entry will select
\* as its call, a position in another contract reported without entry
\* price, or a closed position of size 0 next to a short one reported with
\* a negative size and no side.  Prices are the exchange's; 0 stands for a
\* price the exchange does not report.
ExchangeAccounts ==
    {<<>>,
     <<[symbol |-> "C", size |-> OrderQuantity, side |-> "sell",
        entry_price |-> 12, mark_price |-> 11]>>,
     <<[symbol |-> "X", size |-> OrderQuantity \div 2, side |-> "buy",
        entry_price |-> 0, mark_price |-> 11]>>,
     <<[symbol |-> "X", size |-> 0, side |-> "",
        entry_price |-> 12, mark_price |-> 11],
       [symbol |-> "C", size |-> -OrderQuantity, side |-> "",
        entry_price |-> 12, mark_price |-> 11]>>}

\* The ways a run of _execute_order_strategy for OrderQuantity contracts can
\* end: success and filled_size are the fields of its OrderStrategyOutcome,
\* exch is the quantity its orders have filled on the exchange, rejected
\* tells that a place_order call of the run raised.  Each of them is the end
\* of a behaviour of SpecOrder.
LegOutcomes ==
    {[success |-> TRUE, filled_size |-> OrderQuantity, exch |-> OrderQuantity, rejected |-> FALSE],
     [success |-> TRUE, filled_size |-> OrderQuantity, exch |-> OrderQuantity, rejected |-> TRUE],
     [success |-> TRUE, filled_size |-> OrderQuantity \div 2, exch |-> OrderQuantity \div 2, rejected |-> FALSE],
     [success |-> TRUE, filled_size |-> OrderQuantity, exch |-> OrderQuantity + OrderQuantity \div 2, rejected |-> FALSE],
     [success |-> FALSE, filled_size |-> 0, exch |-> 0, rejected |-> TRUE],
     [success |-> FALSE, filled_size |-> 0, exch |-> 0, rejected |-> FALSE],
     [success |-> FALSE, filled_size |-> OrderQuantity \div 2, exch |-> OrderQuantity \div 2, rejected |-> FALSE],
     [success |-> FALSE, filled_size |-> 0, exch |-> OrderQuantity \div 2, rejected |-> FALSE]}

InitEntry ==
    /\ MarketIdle
    /\ ExitIdle
    /\ OrderIdle
    /\ EngineIdle
    /\ CalcIdle
    /\ en_settings \in [live : BOOLEAN, credentials : BOOLEAN]
    /\ en_exchange \in ExchangeAccounts
    /\ en_entered = [s \in Symbols |-> 0]
    /\ en_pc = "control"
    /\ en_live = FALSE
    /\ en_leg = 0
    /\ en_live_orders = <<>>
    /\ en_outcomes = <<>>
    /\ en_summary = NoSummary
    /\ en_active = FALSE
    /\ en_positions = <<>>
    /\ en_orders = <<>>
    /\ en_result = "none"

\* The PositionLedger row _backfill_exchange_state builds from a position
\* the exchange reports: quantity, side and entry price are stored as
\* reported.
backfill_position(entry) ==
    [symbol |-> entry.symbol, side |-> entry.side, quantity |-> entry.size,
     entry_price |-> entry.entry_price, open |-> TRUE, origin |-> "backfill"]

\* The loop of _backfill_exchange_state: positions of size 0 are left out.
RECURSIVE backfill_positions(_)
backfill_positions(entries) ==
    IF entries = <<>> THEN <<>>
    ELSE (IF entries[1].size = 0 THEN <<>> ELSE <<backfill_position(entries[1])>>)
         \o backfill_positions(Tail(entries))

\* control("start"): _create_session, _backfill_exchange_state and
\* engine.start() with a valid configuration.  The backfill is skipped
\* without credentials and imports nothing when get_positions raises.
ControlStart ==
    /\ en_pc = "control"
    /\ \/ /\ en_settings.credentials
          /\ en_positions' = backfill_positions(en_exchange)
       \/ UNCHANGED en_positions
    /\ en_summary' = [status |-> "waiting",
                      mode |-> IF en_settings.live THEN "live" ELSE "simulation",
                      mode_reason |-> ""]
    /\ en_result' = "starting"
    /\ en_pc' = "waiting"
    /\ UNCHANGED <<en_settings, en_exchange, en_entered, en_live, en_leg, en_live_orders, en_outcomes, en_active, en_orders>>
    /\ UNCHANGED <<exitVars, orderVars, engineVars, calcVars, marketVars>>

\* Before the scheduled entry the account's owner closes the position the
\* account held.
AccountFlattened ==
    /\ en_pc = "waiting"
    /\ en_exchange # <<>>
    /\ en_exchange' = <<>>
    /\ UNCHANGED <<en_settings, en_entered, en_pc, en_live, en_leg, en_live_orders, en_outcomes, en_summary, en_active, en_positions, en_orders, en_result>>
    /\ UNCHANGED <<exitVars, orderVars, engineVars, calcVars, marketVars>>

\* The index of the open position of this symbol, 0 if there is none:
\* existing_by_symbol of _sync_existing_positions.
open_index(positions, symbol) ==
    LET found == {i \in 1..Len(positions) : positions[i].symbol = symbol /\ positions[i].open}
    IN IF found = {} THEN 0 ELSE CHOOSE i \in found : \A j \in found : j <= i

\* entry_price of _sync_existing_positions: the first positive one of the
\* prices the exchange reports for the position, 0 if there is none.
sync_entry_price(raw) ==
    IF raw.entry_price > 0 THEN raw.entry_price
    ELSE IF raw.mark_price > 0 THEN raw.mark_price ELSE 0

\* A _sync_existing_positions that appends a row for every position of the
\* exchange, whatever the ledger holds.
sync_position_appended(positions, raw) ==
    Append(positions, [symbol |-> raw.symbol, side |-> "short",
                       quantity |-> IF raw.size < 0 THEN -raw.size ELSE raw.size,
                       entry_price |-> sync_entry_price(raw), open |-> TRUE,
                       origin |-> "sync"])

\* _sync_existing_positions for one position of the exchange: one of size 0
\* is passed over; else the open ledger position of the symbol is updated,
\* or one is appended.
sync_position(positions, raw) ==
    LET i == open_index(positions, raw.symbol)
        side == IF raw.side \in {"sell", "short"} \/ raw.size < 0 THEN "short" ELSE "long"
        quantity == IF raw.size < 0 THEN -raw.size ELSE raw.size
        entry_price == sync_entry_price(raw)
    IN IF quantity = 0 THEN positions
       ELSE IF i # 0
       THEN [positions EXCEPT ![i].quantity = quantity, ![i].side = side,
                              ![i].entry_price = IF entry_price > 0 THEN entry_price ELSE @]
       ELSE Append(positions, [symbol |-> raw.symbol, side |-> side,
                               quantity |-> quantity, entry_price |-> entry_price,
                               open |-> TRUE, origin |-> "sync"])

RECURSIVE sync_existing_positions(_, _)
sync_existing_positions(positions, raws) ==
    IF raws = <<>> THEN positions
    ELSE sync_existing_positions(sync_position(positions, raws[1]), Tail(raws))

\* raw_open_positions of _should_skip_entry_due_to_positions: the positions
\* of the exchange whose size is not 0.
RECURSIVE open_raw_positions(_)
open_raw_positions(raws) ==
    IF raws = <<>> THEN <<>>
    ELSE (IF raws[1].size = 0 THEN <<>> ELSE <<raws[1]>>) \o open_raw_positions(Tail(raws))

\* The branch of _execute_entry taken when _should_skip_entry_due_to_positions
\* returns the positions raws with the verdict skip: they are adopted and
\* the entry is over.
skip_entry(raws) ==
    /\ en_positions' = sync_existing_positions(en_positions, raws)
    /\ en_summary' = [en_summary EXCEPT !.status = "live"]
    /\ en_active' = TRUE
    /\ en_pc' = "done"

\* The exchange answered get_margined_positions with positions of non-zero
\* size.
PositionsDetected ==
    /\ en_pc = "waiting"
    /\ en_settings.live
    /\ open_raw_positions(en_exchange) # <<>>
    /\ skip_entry(open_raw_positions(en_exchange))

\* _execute_entry up to the skip decision: _should_skip_entry_due_to_positions
\* and, when it says skip, the adoption of the positions it returned.  The
\* verdict is skip with no position when get_margined_positions raised.
SkipCheck ==
    /\ en_pc = "waiting"
    /\ \/ /\ ~en_settings.live
          /\ en_pc' = "select"
          /\ en_summary' = [en_summary EXCEPT !.status = "entering"]
          /\ UNCHANGED <<en_positions, en_active>>
       \/ /\ en_settings.live
          /\ \/ PositionsDetected
             \/ /\ open_raw_positions(en_exchange) = <<>>
                /\ en_pc' = "select"
                /\ en_summary' = [en_summary EXCEPT !.status = "entering"]
                /\ UNCHANGED <<en_positions, en_active>>
             \/ skip_entry(<<>>)
    /\ UNCHANGED <<en_settings, en_exchange, en_entered, en_live, en_leg, en_live_orders, en_outcomes, en_orders, en_result>>
    /\ UNCHANGED <<exitVars, orderVars, engineVars, calcVars, marketVars>>

\* get_tickers and _select_contracts, then the choice of the execution
\* mode: _select_contracts raises when no contract is eligible, and live
\* trading without credentials falls back to simulation.
SelectAndMode ==
    /\ en_pc = "select"
    /\ \/ /\ en_pc' = "failed"
          /\ UNCHANGED <<en_live, en_leg, en_summary>>
       \/ /\ en_pc' = "legs"
          /\ en_leg' = 1
          /\ en_live' = (en_settings.live /\ en_settings.credentials)
          /\ en_summary' = IF en_settings.live /\ ~en_settings.credentials
                           THEN [en_summary EXCEPT !.mode = "simulation",
                                                   !.mode_reason = "missing_credentials"]
                           ELSE en_summary
    /\ UNCHANGED <<en_settings, en_exchange, en_entered, en_live_orders, en_outcomes, en_active, en_positions, en_orders, en_result>>
    /\ UNCHANGED <<exitVars, orderVars, engineVars, calcVars, marketVars>>

\* A leg that keeps live trading on whatever its outcome is.
live_after_leg_kept(outcome) == TRUE

\* live_trading_enabled after a leg's _place_live_order returned.
live_after_leg(outcome) == outcome.success

\* One turn of the loop over the contracts: _place_live_order for the leg,
\* and the downgrade with break when the outcome is not a success.
PlaceLeg ==
    /\ en_pc = "legs"
    /\ en_live
    /\ en_leg <= Len(Legs)
    /\ \E outcome \in LegOutcomes :
          /\ en_entered' = [en_entered EXCEPT ![Legs[en_leg]] = @ + outcome.exch]
          /\ en_outcomes' = Append(en_outcomes, outcome)
          /\ en_live' = live_after_leg(outcome)
          /\ IF outcome.success
             THEN /\ en_live_orders' = Append(en_live_orders,
                          [symbol |-> Legs[en_leg], outcome |-> outcome])
                  /\ en_leg' = en_leg + 1
                  /\ UNCHANGED en_summary
             ELSE /\ en_summary' = IF live_after_leg(outcome) THEN en_summary
                                   ELSE [en_summary EXCEPT !.mode = "simulation",
                                                   !.mode_reason = "live_order_failed"]
                  /\ en_leg' = Len(Legs) + 1
                  /\ UNCHANGED en_live_orders
    /\ UNCHANGED <<en_settings, en_exchange, en_pc, en_active, en_positions, en_orders, en_result>>
    /\ UNCHANGED <<exitVars, orderVars, engineVars, calcVars, marketVars>>

\* The rows _record_live_orders appends for the successful legs: the
\* quantity is outcome.filled_size, or the configured quantity when that is 0.
RECURSIVE live_rows(_)
live_rows(orders) ==
    IF orders = <<>> THEN <<>>
    ELSE LET filled == orders[1].outcome.filled_size
             quantity == IF filled # 0 THEN filled ELSE OrderQuantity
             row == [symbol |-> orders[1].symbol, side |-> "short",
                     quantity |-> quantity, open |-> TRUE, origin |-> "live"]
         IN (IF quantity <= 0 THEN <<>> ELSE <<row>>) \o live_rows(Tail(orders))

\* The rows _record_simulated_orders appends: one for every selected
\* contract, each with the configured quantity.
simulated_rows == [i \in 1..Len(Legs) |->
    [symbol |-> Legs[i], side |-> "short", quantity |-> OrderQuantity,
     open |-> TRUE, origin |-> "simulated"]]

\* The order row that goes with a position row.
order_rows(rows) == [i \in 1..Len(rows) |->
    [symbol |-> rows[i].symbol, side |-> "sell", quantity |-> rows[i].quantity]]

\* After the loop over the contracts: _record_live_orders when live trading
\* is still on and a leg was recorded, _record_simulated_orders otherwise.
RecordOrders ==
    /\ en_pc = "legs"
    /\ ~en_live \/ en_leg > Len(Legs)
    /\ LET rows == IF en_live /\ en_live_orders # <<>>
                   THEN live_rows(en_live_orders) ELSE simulated_rows
       IN /\ en_positions' = en_positions \o rows
          /\ en_orders' = en_orders \o order_rows(rows)
    /\ en_summary' = IF en_live THEN en_summary
                     ELSE [en_summary EXCEPT !.mode = "simulation"]
    /\ en_pc' = "spot"
    /\ UNCHANGED <<en_settings, en_exchange, en_entered, en_live, en_leg, en_live_orders, en_outcomes, en_active, en_result>>
    /\ UNCHANGED <<exitVars, orderVars, engineVars, calcVars, marketVars>>

\* _refresh_spot_state returned: the strategy is active and the entry is
\* reported with status "live".
CompleteEntry ==
    /\ en_pc = "spot"
    /\ en_active' = TRUE
    /\ en_summary' = [en_summary EXCEPT !.status = "live"]
    /\ en_pc' = "done"
    /\ UNCHANGED <<en_settings, en_exchange, en_entered, en_live, en_leg, en_live_orders, en_outcomes, en_positions, en_orders, en_result>>
    /\ UNCHANGED <<exitVars, orderVars, engineVars, calcVars, marketVars>>

NextEntry ==
    \/ ControlStart
    \/ AccountFlattened
    \/ SkipCheck
    \/ SelectAndMode
    \/ PlaceLeg
    \/ RecordOrders
    \/ CompleteEntry

SpecEntry == InitEntry /\ [][NextEntry]_vars

(***************************************************************************)
(* SpecSchedule: the clock of one session.  Time is counted in ticks of    *)
(* the IST wall clock; the conversions between IST and UTC keep the order  *)
(* of instants and are left out.  The P&L exit rules are the environment:  *)
(* a monitoring cycle finds one of them matched, or none.                  *)
(***************************************************************************)

\* Ticks in a day, and the last tick the clock reaches.
DayLen == 3
MaxClock == 7

TimesOfDay == 0..(DayLen - 1)

\* The date of an instant, and datetime.combine(date, time_of_day).
date_of(t) == t \div DayLen
combine(date, time_of_day) == date * DayLen + time_of_day

\* _compute_scheduled_entry at the instant now.
compute_scheduled_entry(now, trade_time) == combine(date_of(now), trade_time)

\* _ready_for_entry at the instant now.
ready_for_entry(now, trade_time) == now >= combine(date_of(now), trade_time)

\* _compute_exit_time at the instant now.
compute_exit_time(now, exit_time) ==
    LET exit_local == combine(date_of(now), exit_time)
    IN IF exit_local <= now THEN exit_local + DayLen ELSE exit_local

InitSchedule ==
    /\ MarketIdle
    /\ ExitIdle
    /\ OrderIdle
    /\ EngineIdle
    /\ EntryIdle
    /\ sc_now \in 0..(DayLen - 1)
    /\ sc_config \in [trade_time : TimesOfDay, exit_time : TimesOfDay]
    /\ sc_pc = "idle"
    /\ sc_started_at = -1
    /\ sc_scheduled = -1
    /\ sc_entered_at = -1
    /\ sc_monitored_at = -1
    /\ sc_planned_exit_at = -1
    /\ SelectIdle
    /\ PnlIdle

\* Time passes.
ClockTick ==
    /\ sc_now < MaxClock
    /\ sc_now' = sc_now + 1
    /\ UNCHANGED <<sc_config, sc_pc, sc_started_at, sc_scheduled, sc_entered_at, sc_monitored_at, sc_planned_exit_at>>
    /\ UNCHANGED <<exitVars, orderVars, engineVars, entryVars, selectVars, pnlVars, marketVars>>

\* start(): the scheduled entry is computed and the control loop created.
ScheduleStart ==
    /\ sc_pc = "idle"
    /\ sc_started_at' = sc_now
    /\ sc_scheduled' = compute_scheduled_entry(sc_now, sc_config.trade_time)
    /\ sc_pc' = "waiting"
    /\ UNCHANGED <<sc_now, sc_config, sc_entered_at, sc_monitored_at, sc_planned_exit_at>>
    /\ UNCHANGED <<exitVars, orderVars, engineVars, entryVars, selectVars, pnlVars, marketVars>>

\* A cycle of _run_loop while the state is not active: _execute_entry once
\* _ready_for_entry holds, a sleep of 5 seconds until then.
ScheduleCycle ==
    /\ sc_pc = "waiting"
    /\ IF ready_for_entry(sc_now, sc_config.trade_time)
       THEN /\ sc_entered_at' = sc_now
            /\ sc_pc' = "active"
       ELSE UNCHANGED <<sc_entered_at, sc_pc>>
    /\ UNCHANGED <<sc_now, sc_config, sc_started_at, sc_scheduled, sc_monitored_at, sc_planned_exit_at>>
    /\ UNCHANGED <<exitVars, orderVars, engineVars, entryVars, selectVars, pnlVars, marketVars>>

\* _monitor_positions: planned_exit_at is computed for the snapshot, and
\* the forced exit is made when _check_exit_conditions names a P&L rule.
MonitorCycle ==
    /\ sc_pc = "active"
    /\ sc_monitored_at' = sc_now
    /\ sc_planned_exit_at' = compute_exit_time(sc_now, sc_config.exit_time)
    /\ \E rule_matched \in BOOLEAN :
          sc_pc' = IF rule_matched THEN "exited" ELSE "active"
    /\ UNCHANGED <<sc_now, sc_config, sc_started_at, sc_scheduled, sc_entered_at>>
    /\ UNCHANGED <<exitVars, orderVars, engineVars, entryVars, selectVars, pnlVars, marketVars>>

NextSchedule ==
    \/ ClockTick
    \/ ScheduleStart
    \/ ScheduleCycle
    \/ MonitorCycle

SpecSchedule == InitSchedule /\ [][NextSchedule]_vars

(***************************************************************************)
(* SpecSelect: one call of _select_contracts.  Deltas are counted in       *)
(* hundredths; dates are day numbers, 0 standing for a ticker without an   *)
(* expiry date and for a configuration without expiry_date.                *)
(***************************************************************************)

\* delta_range_low and delta_range_high of the configuration.
SelectConfig == [delta_range_low |-> 10, delta_range_high |-> 30]

\* The date of the call, and settings.default_expiry_buffer_hours in days.
Today == 1
BufferDays == 1

\* The tickers the exchange can list: calls with positive and puts with
\* negative delta, below and inside the delta range, without expiry date or
\* expiring on day 2 or 3.
CallTickers ==
    [contract_type : {"call_options"}, delta : {5, 20, 30}, expiry : {0, 2, 3}]
PutTickers ==
    [contract_type : {"put_options"}, delta : {-20, -30}, expiry : {0, 2, 3}]

Abs(x) == IF x < 0 THEN -x ELSE x

\* The OptionContract built from a ticker: delta is the absolute value.
contract_of(ticker) ==
    [contract_type |-> ticker.contract_type, delta |-> Abs(ticker.delta),
     expiry_date |-> ticker.expiry]

\* filtered: the contracts of the tickers inside the delta range.
filtered(tickers) ==
    {contract_of(t) : t \in {u \in tickers :
        /\ SelectConfig.delta_range_low <= Abs(u.delta)
        /\ Abs(u.delta) <= SelectConfig.delta_range_high}}

type_key(contract) == IF contract.contract_type = "call_options" THEN "call" ELSE "put"

\* expiry_groups[expiry][key]; contracts without expiry date are in no group.
bucket(contracts, expiry, key) ==
    {c \in contracts : c.expiry_date = expiry /\ c.expiry_date # 0 /\ type_key(c) = key}

has_both(contracts, expiry) ==
    bucket(contracts, expiry, "call") # {} /\ bucket(contracts, expiry, "put") # {}

\* _resolve_target_expiry_date: the configured expiry, else today plus the
\* buffer; it never returns None.
resolve_target_expiry_date(explicit) ==
    IF explicit # 0 THEN explicit ELSE Today + BufferDays

\* selected_expiry: the target if it has both sides, else the earliest
\* later expiry that has, else 0 for None.
selected_expiry(contracts, target) ==
    IF has_both(contracts, target) THEN target
    ELSE LET eligible == {c.expiry_date : c \in {d \in contracts :
                              has_both(contracts, d.expiry_date) /\ d.expiry_date >= target}}
         IN IF eligible = {} THEN 0
            ELSE CHOOSE e \in eligible : \A f \in eligible : e <= f

\* target_delta: the midpoint of the delta range.
target_delta ==
    IF SelectConfig.delta_range_high > SelectConfig.delta_range_low
    THEN SelectConfig.delta_range_low
         + (SelectConfig.delta_range_high - SelectConfig.delta_range_low) \div 2
    ELSE SelectConfig.delta_range_high

\* The key pick_best compares: (delta, -abs(delta - target_delta)).
key_le(a, b) ==
    \/ a.delta < b.delta
    \/ a.delta = b.delta /\ -Abs(a.delta - target_delta) <= -Abs(b.delta - target_delta)

\* A pick_best that takes the lowest key.
pick_worst(candidates) == {c \in candidates : \A d \in candidates : key_le(c, d)}

\* pick_best: the candidates with the highest key; max() returns the first
\* of them in list order.
pick_best(candidates) == {c \in candidates : \A d \in candidates : key_le(d, c)}

\* The lists calls and puts that pick_best is given.
candidates_of(contracts, selected, contract_type, key) ==
    IF selected # 0 THEN bucket(contracts, selected, key)
    ELSE {c \in contracts : c.contract_type = contract_type}

\* What _select_contracts can return for these tickers: the RuntimeError of
\* an empty candidate list, or a call and a put.
select_contracts(tickers, explicit) ==
    LET contracts == filtered(tickers)
        selected == selected_expiry(contracts, resolve_target_expiry_date(explicit))
        calls == candidates_of(contracts, selected, "call_options", "call")
        puts == candidates_of(contracts, selected, "put_options", "put")
    IN IF contracts = {} \/ calls = {} \/ puts = {}
       THEN {[status |-> "error", call |-> NoContract, put |-> NoContract]}
       ELSE {[status |-> "ok", call |-> c, put |-> p] :
                c \in pick_best(calls), p \in pick_best(puts)}

InitSelect ==
    /\ MarketIdle
    /\ ExitIdle
    /\ OrderIdle
    /\ EngineIdle
    /\ EntryIdle
    /\ ScheduleIdle
    /\ PnlIdle
    /\ \E calls \in SUBSET CallTickers, puts \in SUBSET PutTickers, explicit \in {0, 3} :
          sel_in = [tickers |-> calls \cup puts, explicit |-> explicit]
    /\ sel_out = NoSelection

SelectContracts ==
    /\ sel_out.status = "unset"
    /\ sel_out' \in select_contracts(sel_in.tickers, sel_in.explicit)
    /\ UNCHANGED sel_in
    /\ UNCHANGED <<exitVars, orderVars, engineVars, entryVars, scheduleVars, pnlVars, marketVars>>

NextSelect == SelectContracts

SpecSelect == InitSelect /\ [][NextSelect]_vars

(***************************************************************************)
(* SpecPnl: the P&L of one position row at one price, as the monitoring    *)
(* cycle computes it while the row is open (unrealized) and as the close   *)
(* computes it at the same price (realized).  A contract size of 0 in the  *)
(* analytics stands for an absent one.                                     *)
(***************************************************************************)

PnlQuantities == {1, 2}
PnlContractSizes == {1, 10}
PnlEntryPrices == {90, 100}
PnlPrices == {90, 100, 110}

\* The sizes, sides and contract sizes an exchange position can report.
ExchangeSizes == {-2, 1, 2}
ExchangeSides == {"sell", "short", "long"}
ExchangeContractSizes == {0, 1, 10}

\* The row _record_simulated_orders and _record_live_orders open for a leg.
entry_row(quantity, contract_size) ==
    [origin |-> "entry", side |-> "short", quantity |-> quantity,
     analytics_contract_size |-> contract_size]

\* The row _backfill_exchange_state opens: side, size and contract size as
\* the exchange reports them.
backfill_row(size, side, contract_size_raw) ==
    [origin |-> "backfill", side |-> side, quantity |-> size,
     analytics_contract_size |-> contract_size_raw]

\* What _sync_existing_positions stores for an exchange position: a new row
\* without analytics, or the open row of the symbol with quantity and side
\* replaced.
sync_side(size, side_raw) ==
    IF side_raw \in {"sell", "short"} \/ size < 0 THEN "short" ELSE "long"

sync_row(size, side_raw) ==
    [origin |-> "sync", side |-> sync_side(size, side_raw), quantity |-> Abs(size),
     analytics_contract_size |-> 0]

adopted_row(row, size, side_raw) ==
    [row EXCEPT !.origin = "adopted", !.side = sync_side(size, side_raw),
                !.quantity = Abs(size)]

BackfillRows ==
    {backfill_row(size, side, cs) :
        size \in ExchangeSizes, side \in ExchangeSides, cs \in ExchangeContractSizes}

\* The open rows a session can hold once configured with this contract size.
PositionRows(config_contract_size) ==
    {entry_row(q, config_contract_size) : q \in PnlQuantities}
    \cup BackfillRows
    \cup {sync_row(size, side) : size \in ExchangeSizes, side \in ExchangeSides}
    \cup {adopted_row(row, size, side) :
            row \in BackfillRows, size \in ExchangeSizes, side \in ExchangeSides}

\* _calculate_realized_pnl: the contract size is the configured one.
calculate_realized_pnl(position, exit_price, config_contract_size) ==
    IF position.side = "short"
    THEN (position.entry_price - exit_price) * position.quantity * config_contract_size
    ELSE IF position.side = "long"
    THEN (exit_price - position.entry_price) * position.quantity * config_contract_size
    ELSE 0

\* _calculate_unrealized: the contract size is the one handed in.
calculate_unrealized(position, mark_price, contract_size) ==
    IF position.side = "short"
    THEN (position.entry_price - mark_price) * position.quantity * contract_size
    ELSE IF position.side = "long"
    THEN (mark_price - position.entry_price) * position.quantity * contract_size
    ELSE 0

\* position_contract_size of _refresh_position_analytics: the size in the
\* row's analytics, the configured one when that is absent or not positive.
position_contract_size(position, default_contract_size) ==
    IF position.analytics_contract_size > 0 THEN position.analytics_contract_size
    ELSE default_contract_size

InitPnl ==
    /\ MarketIdle
    /\ ExitIdle
    /\ OrderIdle
    /\ EngineIdle
    /\ EntryIdle
    /\ ScheduleIdle
    /\ SelectIdle
    /\ \E cs \in PnlContractSizes, entry_price \in PnlEntryPrices, price \in PnlPrices :
          \E row \in PositionRows(cs) :
             pl_in = [origin |-> row.origin, side |-> row.side, quantity |-> row.quantity,
                      entry_price |-> entry_price, price |-> price,
                      config_contract_size |-> cs,
                      analytics_contract_size |-> row.analytics_contract_size]
    /\ pl_out = NoPnl

ComputePnl ==
    /\ pl_out.status = "unset"
    /\ pl_out' = [status |-> "done",
                  realized |-> calculate_realized_pnl(pl_in, pl_in.price, pl_in.config_contract_size),
                  unrealized |-> calculate_unrealized(pl_in, pl_in.price,
                                    position_contract_size(pl_in, pl_in.config_contract_size))]
    /\ UNCHANGED pl_in
    /\ UNCHANGED <<exitVars, orderVars, engineVars, entryVars, scheduleVars, selectVars, marketVars>>

NextPnl == ComputePnl

SpecPnl == InitPnl /\ [][NextPnl]_vars

(***************************************************************************)
(* SpecQuote: the quote cache of OptionPriceStream.  The websocket is the  *)
(* environment: it delivers ticker messages in any order, with any of      *)
(* their fields missing.  Null stands for a missing field.                 *)
(***************************************************************************)

\* The values the price fields of a message can carry: mark_price can be
\* missing, zero or a price, the others missing or a price.
FieldValues == {Null, 0, 5}
OtherFieldValues == {Null, 5}

\* The symbols a message can name: none, an option in lower or upper case.
MessageSymbols == {"", "c", "C", "P"}

TickerMessages ==
    [symbol : MessageSymbols, mark_price : FieldValues, fair_price : OtherFieldValues,
     best_bid_price : OtherFieldValues, has_quotes : BOOLEAN,
     quotes_best_bid : OtherFieldValues]

\* _normalize_symbol: upper case.
normalize_symbol(symbol) == IF symbol = "c" THEN "C" ELSE symbol

\* Python's "a or b": b when a is None or zero.
py_or(a, b) == IF a = Null \/ a = 0 THEN b ELSE a

\* _safe_float of a number or of None.
safe_float(value) == value

\* The quote _store_quote builds from a message.
quote_of(data) ==
    LET best_bid_price == IF data.has_quotes
                          THEN py_or(data.quotes_best_bid, data.best_bid_price)
                          ELSE data.best_bid_price
    IN [symbol |-> normalize_symbol(data.symbol),
        mark_price |-> safe_float(py_or(data.mark_price, data.fair_price)),
        best_bid |-> safe_float(best_bid_price)]

\* A _store_quote that keeps the cached value of a field the message lacks.
merge_quote(quotes, data) ==
    LET symbol == normalize_symbol(data.symbol)
        fresh == quote_of(data)
        old == quotes[symbol]
    IN IF symbol = "" THEN quotes
       ELSE [quotes EXCEPT ![symbol] =
                [symbol |-> symbol,
                 mark_price |-> IF fresh.mark_price = Null THEN old.mark_price
                                ELSE fresh.mark_price,
                 best_bid |-> IF fresh.best_bid = Null THEN old.best_bid
                              ELSE fresh.best_bid]]

\* _store_quote: a message without symbol is dropped, else the quote built
\* from the message takes the place of the symbol's entry.
store_quote(quotes, data) ==
    LET symbol == normalize_symbol(data.symbol)
    IN IF symbol = "" THEN quotes
       ELSE [quotes EXCEPT ![symbol] = quote_of(data)]

InitQuote ==
    /\ ExitIdle
    /\ OrderIdle
    /\ EngineIdle
    /\ EntryIdle
    /\ CalcIdle
    /\ QuoteIdle
    /\ ForceIdle
    /\ ValueIdle
    /\ OtherIdle

\* _handle_message with a v2/ticker message.
HandleTicker ==
    /\ \E data \in TickerMessages :
          /\ qs_msg' = data
          /\ qs_prev' = qs_quotes
          /\ qs_quotes' = store_quote(qs_quotes, data)
    /\ UNCHANGED <<exitVars, orderVars, engineVars, entryVars, calcVars, forceVars, valueVars, otherVars>>

\* stop() clears the cache.
StopStream ==
    /\ qs_quotes' = [s \in Symbols |-> NoQuote]
    /\ qs_prev' = qs_quotes
    /\ qs_msg' = NoMessage
    /\ UNCHANGED <<exitVars, orderVars, engineVars, entryVars, calcVars, forceVars, valueVars, otherVars>>

NextQuote == HandleTicker \/ StopStream

SpecQuote == InitQuote /\ [][NextQuote]_vars

(***************************************************************************)
(* SpecForceExit: one run of _force_exit on a session with two open legs   *)
(***************************************************************************)

\* delta_live_trading of the settings and the mode the entry recorded: a
\* session configured for simulation, a live one, and a live one that the
\* entry downgraded to simulation.
ForceConfigs ==
    {[live |-> FALSE, mode |-> "simulation"],
     [live |-> TRUE, mode |-> "live"],
     [live |-> TRUE, mode |-> "simulation"]}

\* The last mark the engine holds for a position (state.mark_prices or the
\* mark of its analytics), 0 if it holds none.
ForceMarks == {0, 9}

\* An open position of the session, entered at 12.
force_position(symbol, mark) ==
    [symbol |-> symbol, quantity |-> OrderQuantity, entry_price |-> 12, mark |-> mark,
     exit_price |-> 0, exit_time |-> 0]

InitForceExit ==
    /\ ExitIdle
    /\ OrderIdle
    /\ EngineIdle
    /\ EntryIdle
    /\ CalcIdle
    /\ QuoteIdle
    /\ ValueIdle
    /\ OtherIdle
    /\ fe_cfg \in ForceConfigs
    /\ fe_pc = "start"
    /\ fe_now = 1
    /\ fe_leg = 0
    /\ \E c \in ForceMarks : \E q \in ForceMarks :
          fe_positions = <<force_position("C", c), force_position("P", q)>>
    /\ fe_closings = <<>>
    /\ fe_submitted = {}
    /\ fe_status = "running"

\* _force_exit up to its choice: closing orders are placed when the
\* settings say live trading and a client exists, which it does while a
\* session runs.
ForceExitBegin ==
    /\ fe_pc = "start"
    /\ IF fe_cfg.live
       THEN fe_pc' = "close" /\ fe_leg' = 1
       ELSE fe_pc' = "spot" /\ fe_leg' = 0
    /\ fe_now' = fe_now + 1
    /\ UNCHANGED <<fe_cfg, fe_positions, fe_closings, fe_submitted, fe_status>>
    /\ UNCHANGED <<exitVars, orderVars, engineVars, entryVars, calcVars, quoteVars, valueVars, otherVars>>

\* What _place_live_order can give for a closing order: filled, or failed
\* with nothing filled.
ClosingOutcomes(symbol) ==
    {[symbol |-> symbol, success |-> TRUE, filled_size |-> OrderQuantity, price |-> 8],
     [symbol |-> symbol, success |-> FALSE, filled_size |-> 0, price |-> 0]}

\* One turn of the loop of _close_live_positions: a position with an exit
\* time or without a contract is passed over; else a closing order is
\* placed and its outcome kept.
ClosePosition ==
    /\ fe_pc = "close"
    /\ LET position == fe_positions[fe_leg]
       IN \/ /\ position.exit_time # 0
             /\ UNCHANGED <<fe_closings, fe_submitted>>
          \/ /\ position.exit_time = 0
             /\ \/ UNCHANGED <<fe_closings, fe_submitted>>
                \/ \E outcome \in ClosingOutcomes(position.symbol) :
                      /\ fe_closings' = Append(fe_closings, outcome)
                      /\ fe_submitted' = fe_submitted \cup {position.symbol}
    /\ IF fe_leg < Len(fe_positions)
       THEN fe_leg' = fe_leg + 1 /\ fe_pc' = "close"
       ELSE fe_leg' = fe_leg /\ fe_pc' = "record"
    /\ fe_now' = fe_now + 1
    /\ UNCHANGED <<fe_cfg, fe_positions, fe_status>>
    /\ UNCHANGED <<exitVars, orderVars, engineVars, entryVars, calcVars, quoteVars, valueVars, otherVars>>

\* _record_live_orders for one closing order: the open position of the
\* symbol gets the price and the time of the close.
record_close(positions, closing, now) ==
    [i \in 1..Len(positions) |->
        IF /\ positions[i].symbol = closing.symbol
           /\ positions[i].exit_time = 0
           /\ \A j \in 1..(i - 1) :
                 ~(positions[j].symbol = closing.symbol /\ positions[j].exit_time = 0)
        THEN [positions[i] EXCEPT !.exit_price = closing.price, !.exit_time = now]
        ELSE positions[i]]

\* successful_closes of _force_exit.
successful_close(closing) == closing.success /\ closing.filled_size > 0

RECURSIVE record_closes(_, _, _)
record_closes(positions, closings, now) ==
    IF closings = <<>> THEN positions
    ELSE record_closes(IF successful_close(closings[1])
                       THEN record_close(positions, closings[1], now)
                       ELSE positions,
                       Tail(closings), now)

\* _force_exit after _close_live_positions: the successful closes are
\* recorded, the failed ones are logged.
RecordCloses ==
    /\ fe_pc = "record"
    /\ fe_positions' = record_closes(fe_positions, fe_closings, fe_now)
    /\ fe_pc' = "spot"
    /\ fe_now' = fe_now + 1
    /\ UNCHANGED <<fe_cfg, fe_leg, fe_closings, fe_submitted, fe_status>>
    /\ UNCHANGED <<exitVars, orderVars, engineVars, entryVars, calcVars, quoteVars, valueVars, otherVars>>

\* The loop body of _finalize_session_summary: the exit price is the one
\* recorded, else the last mark, else the entry price; a position without
\* exit time gets the time of the call.
finalize_position(position, now) ==
    LET price == IF position.exit_price > 0 THEN position.exit_price
                 ELSE IF position.mark > 0 THEN position.mark
                 ELSE position.entry_price
    IN [position EXCEPT !.exit_price = price,
                        !.exit_time = IF @ = 0 THEN now ELSE @]

\* _refresh_spot_state and _finalize_session_summary of _force_exit.
FinalizeSession ==
    /\ fe_pc = "spot"
    /\ fe_positions' = [i \in 1..Len(fe_positions) |-> finalize_position(fe_positions[i], fe_now)]
    /\ fe_status' = "stopped"
    /\ fe_pc' = "persist"
    /\ fe_now' = fe_now + 1
    /\ UNCHANGED <<fe_cfg, fe_leg, fe_closings, fe_submitted>>
    /\ UNCHANGED <<exitVars, orderVars, engineVars, entryVars, calcVars, quoteVars, valueVars, otherVars>>

\* _persist_session_state("force_exit"): a failure to save is logged.
PersistForceExit ==
    /\ fe_pc = "persist"
    /\ fe_pc' = "done"
    /\ UNCHANGED <<fe_cfg, fe_now, fe_leg, fe_positions, fe_closings, fe_submitted, fe_status>>
    /\ UNCHANGED <<exitVars, orderVars, engineVars, entryVars, calcVars, quoteVars, valueVars, otherVars>>

NextForceExit ==
    \/ ForceExitBegin
    \/ ClosePosition
    \/ RecordCloses
    \/ FinalizeSession
    \/ PersistForceExit

SpecForceExit == InitForceExit /\ [][NextForceExit]_vars

(***************************************************************************)
(* SpecValue: the mark one position is valued at in a monitoring cycle     *)
(***************************************************************************)

\* What _refresh_position_analytics finds for one position: the mode of
\* the session, whether the position is open, the mark stored in its
\* analytics by an earlier cycle or by the entry, the quote of the stream
\* if it has one, the stale flag of the stream, and the mark get_ticker
\* would return (Null: the call raises).
ValuationInputs ==
    {v \in [mode : {"live", "simulation"}, open : BOOLEAN, stored_mark : {Null, 9},
            has_quote : BOOLEAN, quote_mark : {Null, 11}, stale : BOOLEAN,
            ticker_mark : {Null, 13}] :
        ~v.has_quote => v.quote_mark = Null}

\* The mark after the quote of the stream was applied: a quote with a mark
\* replaces the stored one.
mark_after_stream(v) ==
    IF v.has_quote /\ v.quote_mark # Null THEN v.quote_mark ELSE v.stored_mark

\* The condition of the REST fallback: no mark so far, an open position and
\* a client, which the cycle keeps in live mode only.
rest_fallback(v) == mark_after_stream(v) = Null /\ v.open /\ v.mode = "live"

\* The mark the position is valued at; 12 is its entry price, the last
\* resort.
refresh_mark(v) ==
    LET mark_price == IF rest_fallback(v) /\ v.ticker_mark # Null
                      THEN v.ticker_mark ELSE mark_after_stream(v)
    IN [status |-> "valued",
        mark_price |-> IF mark_price = Null THEN 12 ELSE mark_price,
        rest_called |-> rest_fallback(v)]

InitValue ==
    /\ ExitIdle
    /\ OrderIdle
    /\ EngineIdle
    /\ EntryIdle
    /\ CalcIdle
    /\ QuoteIdle
    /\ ForceIdle
    /\ OtherIdle
    /\ vl_in \in ValuationInputs
    /\ vl_out = NoValuation

\* The loop body of _refresh_position_analytics for the position.
RefreshPosition ==
    /\ vl_out.status = "unset"
    /\ vl_out' = refresh_mark(vl_in)
    /\ UNCHANGED vl_in
    /\ UNCHANGED <<exitVars, orderVars, engineVars, entryVars, calcVars, quoteVars, forceVars, otherVars>>

NextValue == RefreshPosition

SpecValue == InitValue /\ [][NextValue]_vars

(***************************************************************************)
(* SpecRound: one call of _normalize_price, prices in thousandths          *)
(***************************************************************************)

MaxPrice == 600

\* tick_size: none, 0.01, 0.05, 0.1, 0.5 and 1.0.
TickSizes == {0, 10, 50, 100, 500, 1000}

\* base_tick of _normalize_price: 0.1 when no positive tick is given.
base_tick(tick_size) == IF tick_size > 0 THEN tick_size ELSE 100

\* The number of decimal places of Decimal(str(tick)): a float is printed
\* with at least one.
decimal_places(tick) ==
    IF tick % 100 = 0 THEN 1 ELSE IF tick % 10 = 0 THEN 2 ELSE 3

\* price.quantize(tick, rounding=ROUND_HALF_UP): the price rounded to the
\* decimal places of tick, halves up.
quantize(price, places) ==
    LET unit == IF places = 1 THEN 100 ELSE IF places = 2 THEN 10 ELSE 1
    IN ((2 * price + unit) \div (2 * unit)) * unit

normalize_price(candidate, tick_size) ==
    quantize(candidate, decimal_places(base_tick(tick_size)))

InitRound ==
    /\ ExitIdle
    /\ OrderIdle
    /\ EngineIdle
    /\ EntryIdle
    /\ CalcIdle
    /\ QuoteIdle
    /\ ForceIdle
    /\ ValueIdle
    /\ LimitIdle
    /\ StreamIdle
    /\ rd_in \in [candidate : 1..MaxPrice, tick_size : TickSizes]
    /\ rd_out = Null

\* limit_price = self._normalize_price(price_candidate, tick_size).
NormalizePrice ==
    /\ rd_out = Null
    /\ rd_out' = normalize_price(rd_in.candidate, rd_in.tick_size)
    /\ UNCHANGED rd_in
    /\ UNCHANGED <<exitVars, orderVars, engineVars, entryVars, calcVars, quoteVars, forceVars, valueVars, limitVars, streamVars>>

NextRound == NormalizePrice

SpecRound == InitRound /\ [][NextRound]_vars

(***************************************************************************)
(* SpecLimit: the limit price of one attempt, prices in thousandths        *)
(***************************************************************************)

\* Best bid and ask as _fetch_best_prices returns them (Null: none), the
\* tick size of the product and the mid price of the contract.
LimitInputs ==
    [side : {"buy", "sell"}, best_bid : {Null, 40, 300, 1250}, best_ask : {Null, 40, 300, 1250},
     tick_size : {0, 100, 500}, mid_price : {0, 40, 1000}]

\* _determine_limit_price.
determine_limit_price(side, best_bid, best_ask, tick_size, fallback) ==
    LET tick == IF tick_size > 0 THEN tick_size ELSE 100
        safe_fallback == IF fallback > 0 THEN fallback ELSE tick
        price == IF side = "buy"
                 THEN IF best_ask # Null /\ best_ask > 0 THEN best_ask
                      ELSE IF best_bid # Null /\ best_bid > 0 THEN best_bid + tick
                      ELSE Null
                 ELSE IF best_bid # Null /\ best_bid > 0 THEN best_bid
                      ELSE IF best_ask # Null /\ best_ask > 0
                           THEN (IF best_ask - tick > tick THEN best_ask - tick ELSE tick)
                      ELSE Null
    IN IF price = Null \/ price <= 0 THEN safe_fallback ELSE price

\* The limit price of an attempt of _execute_order_strategy: the price
\* determined, rounded; when that is not positive, the mid price or the
\* tick, rounded.
limit_price_of(v) ==
    LET price_candidate == determine_limit_price(v.side, v.best_bid, v.best_ask,
                                                 v.tick_size, v.mid_price)
        limit_price == normalize_price(price_candidate, v.tick_size)
        fallback_price == IF v.mid_price > 0 THEN v.mid_price
                          ELSE IF v.tick_size > 0 THEN v.tick_size ELSE 100
    IN [status |-> "priced", candidate |-> price_candidate,
        limit_price |-> IF limit_price <= 0
                        THEN normalize_price(fallback_price, v.tick_size)
                        ELSE limit_price]

InitLimit ==
    /\ ExitIdle
    /\ OrderIdle
    /\ EngineIdle
    /\ EntryIdle
    /\ CalcIdle
    /\ QuoteIdle
    /\ ForceIdle
    /\ ValueIdle
    /\ RoundIdle
    /\ StreamIdle
    /\ lp_in \in LimitInputs
    /\ lp_out = NoLimitPrice

\* The head of the loop over the attempts, up to the payload of the order.
PriceAttempt ==
    /\ lp_out.status = "unset"
    /\ lp_out' = limit_price_of(lp_in)
    /\ UNCHANGED lp_in
    /\ UNCHANGED <<exitVars, orderVars, engineVars, entryVars, calcVars, quoteVars, forceVars, valueVars, roundVars, streamVars>>

NextLimit == PriceAttempt

SpecLimit == InitLimit /\ [][NextLimit]_vars

(***************************************************************************)
(* SpecStream: the reconnect loop of OptionPriceStream and the calls       *)
(* start(), stop(), set_symbols() and add_symbols() that run beside it.    *)
(* Every action is one stretch of a coroutine between two suspensions.     *)
(***************************************************************************)

InitStream ==
    /\ ExitIdle
    /\ OrderIdle
    /\ EngineIdle
    /\ EntryIdle
    /\ CalcIdle
    /\ QuoteIdle
    /\ ForceIdle
    /\ ValueIdle
    /\ RoundIdle
    /\ LimitIdle
    /\ StreamIdle

StreamFrame == UNCHANGED <<exitVars, orderVars, engineVars, entryVars, calcVars, quoteVars, forceVars, valueVars, roundVars, limitVars>>

Min(a, b) == IF a <= b THEN a ELSE b

RunAlive(k) == ws_runs[k].pc \notin {"none", "done"}

\* A task identity start() can give to a new task.
FreeTask(k) == ~RunAlive(k) /\ \A s \in StopCalls : ~(ws_stops[s].pc = "awaiting" /\ ws_stops[s].task = k)

\* The identity start() gives to the task it creates.
NewRun(k) == FreeTask(k) /\ \A j \in Tasks : FreeTask(j) => k <= j

\* start(): the state after it, from the state given; runs under the lock.
start(current, runs, stopping, k) ==
    IF current # 0 /\ runs[current].pc # "done"
    THEN [task |-> current, runs |-> runs, stop_event |-> stopping]
    ELSE [task |-> k, runs |-> [runs EXCEPT ![k] = [NoRun EXCEPT !.pc = "created"]],
          stop_event |-> FALSE]

StreamStart ==
    /\ ws_lock = 0
    /\ \E k \in Tasks :
          /\ NewRun(k)
          /\ LET after == start(ws_task, ws_runs, ws_stop_event, k)
             IN /\ ws_task' = after.task
                /\ ws_runs' = after.runs
                /\ ws_stop_event' = after.stop_event
    /\ UNCHANGED <<ws_lock, ws_subscription_event, ws_conn, ws_subscriptions, ws_latest_quotes, ws_last_quote_at, ws_stale_alert_active, ws_stops>>
    /\ StreamFrame

\* set_symbols(symbols): returns at once when the set is the same.
SetSymbols ==
    /\ ws_lock = 0
    /\ \E normalized \in SUBSET Symbols, k \in Tasks :
          /\ normalized # ws_subscriptions
          /\ NewRun(k)
          /\ ws_subscriptions' = normalized
          /\ ws_subscription_event' = TRUE
          /\ LET after == start(ws_task, ws_runs, ws_stop_event, k)
             IN /\ ws_task' = after.task
                /\ ws_runs' = after.runs
                /\ ws_stop_event' = after.stop_event
    /\ UNCHANGED <<ws_lock, ws_conn, ws_latest_quotes, ws_last_quote_at, ws_stale_alert_active, ws_stops>>
    /\ StreamFrame

\* add_symbols(symbols): returns at once when no symbol is given.
AddSymbols ==
    /\ ws_lock = 0
    /\ \E normalized \in SUBSET Symbols, k \in Tasks :
          /\ normalized # {}
          /\ NewRun(k)
          /\ ws_subscriptions' = ws_subscriptions \cup normalized
          /\ ws_subscription_event' = (ws_subscription_event \/ ws_subscriptions' # ws_subscriptions)
          /\ LET after == start(ws_task, ws_runs, ws_stop_event, k)
             IN /\ ws_task' = after.task
                /\ ws_runs' = after.runs
                /\ ws_stop_event' = after.stop_event
    /\ UNCHANGED <<ws_lock, ws_conn, ws_latest_quotes, ws_last_quote_at, ws_stale_alert_active, ws_stops>>
    /\ StreamFrame

\* The part of stop() that runs under the lock once the connection is
\* closed, and the wait for the task that follows it.
StopClears(s) ==
    /\ ws_task' = 0
    /\ ws_conn' = 0
    /\ ws_subscriptions' = {}
    /\ ws_subscription_event' = FALSE
    /\ ws_latest_quotes' = {}
    /\ ws_stale_alert_active' = FALSE
    /\ ws_last_quote_at' = FALSE
    /\ ws_lock' = 0
    /\ IF ws_task # 0
       THEN /\ ws_stops' = [ws_stops EXCEPT ![s] = [pc |-> "awaiting", task |-> ws_task, conn |-> 0]]
            /\ ws_stop_event' = TRUE
       ELSE /\ ws_stops' = [ws_stops EXCEPT ![s] = [pc |-> "returned", task |-> 0, conn |-> 0]]
            /\ ws_stop_event' = FALSE

\* stop() up to its first suspension: the close of an open connection, or
\* the wait for the task when there is no open connection.
StreamStopBegin(s) ==
    /\ ws_stops[s].pc \in {"idle", "returned"}
    /\ ws_lock = 0
    /\ IF ws_conn # 0 /\ ws_runs[ws_conn].open
       THEN /\ ws_lock' = s
            /\ ws_stop_event' = TRUE
            /\ ws_stops' = [ws_stops EXCEPT ![s] = [pc |-> "closing", task |-> 0, conn |-> ws_conn]]
            /\ UNCHANGED <<ws_task, ws_conn, ws_subscriptions, ws_subscription_event, ws_latest_quotes, ws_stale_alert_active, ws_last_quote_at>>
       ELSE StopClears(s)
    /\ UNCHANGED ws_runs
    /\ StreamFrame

\* conn.close() returns: the connection is closed; what the server sent
\* before it closed is still to be read.
StreamCloseReturns(s) ==
    /\ ws_stops[s].pc = "closing"
    /\ ws_runs' = [ws_runs EXCEPT ![ws_stops[s].conn].open = FALSE]
    /\ StopClears(s)
    /\ StreamFrame

\* await asyncio.shield(task) returns, and stop() with it.
StreamStopReturns(s) ==
    /\ ws_stops[s].pc = "awaiting"
    /\ ws_runs[ws_stops[s].task].pc = "done"
    /\ ws_stops' = [ws_stops EXCEPT ![s] = [pc |-> "returned", task |-> 0, conn |-> 0]]
    /\ ws_stop_event' = FALSE
    /\ UNCHANGED <<ws_task, ws_lock, ws_subscription_event, ws_conn, ws_subscriptions, ws_latest_quotes, ws_last_quote_at, ws_stale_alert_active, ws_runs>>
    /\ StreamFrame

\* The head of the outer loop of _run.
loop_head(r, stopping) ==
    IF stopping THEN [NoRun EXCEPT !.pc = "done"] ELSE [r EXCEPT !.pc = "connecting"]

\* The task runs for the first time.
RunBegins(k) ==
    /\ ws_runs[k].pc = "created"
    /\ ws_runs' = [ws_runs EXCEPT ![k] = loop_head(@, ws_stop_event)]
    /\ UNCHANGED <<ws_task, ws_lock, ws_stop_event, ws_subscription_event, ws_conn, ws_subscriptions, ws_latest_quotes, ws_last_quote_at, ws_stale_alert_active, ws_stops>>
    /\ StreamFrame

\* _send_subscribe on the connection of a run: nothing is sent for an empty
\* set, and a send on a closed connection fails and is logged.
send_subscribe(r, subscriptions) ==
    IF subscriptions = {} \/ ~r.open THEN r
    ELSE [r EXCEPT !.sent = subscriptions]

\* The head of the inner loop: wait again, or leave the connection when
\* stop was asked for.
inner_head(r, stopping) ==
    IF stopping
    THEN [r EXCEPT !.pc = "finally", !.open = FALSE, !.ended = "stopped", !.waited = 0]
    ELSE [r EXCEPT !.pc = "wait"]

\* websockets.connect succeeds: _on_open, the backoff is reset, the inner
\* loop is entered.
ConnectSucceeds(k) ==
    /\ ws_runs[k].pc = "connecting"
    /\ ws_lock = 0
    /\ ws_conn' = k
    /\ ws_stale_alert_active' = FALSE
    /\ ws_runs' = [ws_runs EXCEPT ![k] =
            inner_head(send_subscribe([@ EXCEPT !.open = TRUE, !.inbox = "", !.sent = {}, !.backoff = 1,
                                                !.failures = 0, !.ended = "none", !.waited = 0],
                                      ws_subscriptions),
                       ws_stop_event)]
    /\ UNCHANGED <<ws_task, ws_lock, ws_stop_event, ws_subscription_event, ws_subscriptions, ws_latest_quotes, ws_last_quote_at, ws_stops>>
    /\ StreamFrame

\* websockets.connect raises: the except branch starts its sleep.
ConnectFails(k) ==
    /\ ws_runs[k].pc = "connecting"
    /\ ws_runs' = [ws_runs EXCEPT ![k] = [@ EXCEPT !.pc = "sleeping", !.ended = "failed", !.waited = 0,
                                                   !.failures = Min(@ + 1, MaxFailures)]]
    /\ UNCHANGED <<ws_task, ws_lock, ws_stop_event, ws_subscription_event, ws_conn, ws_subscriptions, ws_latest_quotes, ws_last_quote_at, ws_stale_alert_active, ws_stops>>
    /\ StreamFrame

\* asyncio.sleep(min(backoff, 30.0)) ends; backoff = min(backoff * 2, 30.0).
BackoffEnds(k) ==
    /\ ws_runs[k].pc = "sleeping"
    /\ ws_runs' = [ws_runs EXCEPT ![k] = [@ EXCEPT !.pc = "finally",
                                                   !.waited = Min(ws_runs[k].backoff, MaxBackoff),
                                                   !.backoff = Min(@ * 2, MaxBackoff)]]
    /\ UNCHANGED <<ws_task, ws_lock, ws_stop_event, ws_subscription_event, ws_conn, ws_subscriptions, ws_latest_quotes, ws_last_quote_at, ws_stale_alert_active, ws_stops>>
    /\ StreamFrame

\* The finally branch, under the lock, and the head of the outer loop.
RunFinally(k) ==
    /\ ws_runs[k].pc = "finally"
    /\ ws_lock = 0
    /\ ws_conn' = 0
    /\ ws_stale_alert_active' = FALSE
    /\ ws_runs' = [ws_runs EXCEPT ![k] =
            loop_head([@ EXCEPT !.open = FALSE, !.inbox = "", !.sent = {}],
                      ws_stop_event)]
    /\ UNCHANGED <<ws_task, ws_lock, ws_stop_event, ws_subscription_event, ws_subscriptions, ws_latest_quotes, ws_last_quote_at, ws_stops>>
    /\ StreamFrame

\* The values _check_for_stale_quotes can leave in the stale flag.
stale_after_check ==
    IF ws_subscriptions = {} THEN {FALSE}
    ELSE IF ~(ws_last_quote_at \/ ws_conn # 0) THEN {ws_stale_alert_active}
    ELSE {TRUE, FALSE}

\* asyncio.wait returns in the inner loop: a timeout, a message, a closed
\* connection or a change of the subscriptions.
WaitReturns(k) ==
    LET r == ws_runs[k] IN
    /\ r.pc = "wait"
    /\ IF r.inbox = Undecodable
       THEN \* message.decode raises: the except branch of the outer loop
            /\ ws_runs' = [ws_runs EXCEPT ![k] = [r EXCEPT !.pc = "sleeping", !.open = FALSE, !.inbox = "",
                                                           !.ended = "lost", !.waited = 0, !.failures = 1]]
            /\ UNCHANGED <<ws_subscription_event, ws_latest_quotes, ws_last_quote_at, ws_stale_alert_active>>
       ELSE IF r.inbox = "" /\ ~r.open
       THEN \* ConnectionClosed: break
            /\ ws_runs' = [ws_runs EXCEPT ![k] = [r EXCEPT !.pc = "finally", !.ended = "lost", !.waited = 0,
                                                           !.failures = 0]]
            /\ UNCHANGED <<ws_subscription_event, ws_latest_quotes, ws_last_quote_at, ws_stale_alert_active>>
       ELSE /\ IF r.inbox # ""
               THEN \* _handle_message, _store_quote
                    /\ ws_latest_quotes' = ws_latest_quotes \cup {r.inbox}
                    /\ ws_last_quote_at' = TRUE
                    /\ ws_stale_alert_active' = FALSE
               ELSE IF ~ws_subscription_event
               THEN \* timeout
                    /\ ws_stale_alert_active' \in stale_after_check
                    /\ UNCHANGED <<ws_latest_quotes, ws_last_quote_at>>
               ELSE UNCHANGED <<ws_latest_quotes, ws_last_quote_at, ws_stale_alert_active>>
            /\ ws_subscription_event' = FALSE
            /\ ws_runs' = [ws_runs EXCEPT ![k] =
                    IF ~ws_subscription_event THEN inner_head([r EXCEPT !.inbox = ""], ws_stop_event)
                    ELSE IF ws_lock # 0 THEN [r EXCEPT !.inbox = "", !.pc = "subscribe"]
                    ELSE inner_head(send_subscribe([r EXCEPT !.inbox = ""], ws_subscriptions), ws_stop_event)]
    /\ UNCHANGED <<ws_task, ws_lock, ws_stop_event, ws_conn, ws_subscriptions, ws_stops>>
    /\ StreamFrame

\* _send_subscribe gets the lock it waited for.
SendSubscribe(k) ==
    /\ ws_runs[k].pc = "subscribe"
    /\ ws_lock = 0
    /\ ws_runs' = [ws_runs EXCEPT ![k] = inner_head(send_subscribe(@, ws_subscriptions), ws_stop_event)]
    /\ UNCHANGED <<ws_task, ws_lock, ws_stop_event, ws_subscription_event, ws_conn, ws_subscriptions, ws_latest_quotes, ws_last_quote_at, ws_stale_alert_active, ws_stops>>
    /\ StreamFrame

\* The server sends a ticker of a symbol of the last subscribe message, or
\* bytes that do not decode.
ServerSends(k) ==
    /\ ws_runs[k].pc \in {"wait", "subscribe"}
    /\ ws_runs[k].open
    /\ ws_runs[k].inbox = ""
    /\ \E message \in ws_runs[k].sent \cup {Undecodable} :
          ws_runs' = [ws_runs EXCEPT ![k].inbox = message]
    /\ UNCHANGED <<ws_task, ws_lock, ws_stop_event, ws_subscription_event, ws_conn, ws_subscriptions, ws_latest_quotes, ws_last_quote_at, ws_stale_alert_active, ws_stops>>
    /\ StreamFrame

\* The server closes the connection.
ServerCloses(k) ==
    /\ ws_runs[k].pc \in {"wait", "subscribe"}
    /\ ws_runs[k].open
    /\ ws_runs' = [ws_runs EXCEPT ![k].open = FALSE]
    /\ UNCHANGED <<ws_task, ws_lock, ws_stop_event, ws_subscription_event, ws_conn, ws_subscriptions, ws_latest_quotes, ws_last_quote_at, ws_stale_alert_active, ws_stops>>
    /\ StreamFrame

NextStream ==
    \/ StreamStart
    \/ AddSymbols
    \/ SetSymbols
    \/ \E s \in StopCalls : StreamStopBegin(s)
    \/ \E s \in StopCalls : StreamCloseReturns(s)
    \/ \E s \in StopCalls : StreamStopReturns(s)
    \/ \E k \in Tasks : RunBegins(k)
    \/ \E k \in Tasks : ConnectSucceeds(k)
    \/ \E k \in Tasks : ConnectFails(k)
    \/ \E k \in Tasks : BackoffEnds(k)
    \/ \E k \in Tasks : RunFinally(k)
    \/ \E k \in Tasks : WaitReturns(k)
    \/ \E k \in Tasks : SendSubscribe(k)
    \/ \E k \in Tasks : ServerSends(k)
    \/ \E k \in Tasks : ServerCloses(k)

SpecStream == InitStream /\ [][NextStream]_vars

\* The event loop runs every coroutine that can run, every sleep and every
\* connection attempt ends, and the lock is handed out in turn.
StreamFairness ==
    /\ \A k \in Tasks :
          /\ WF_vars(RunBegins(k))
          /\ SF_vars(ConnectSucceeds(k) \/ ConnectFails(k))
          /\ WF_vars(BackoffEnds(k))
          /\ SF_vars(RunFinally(k))
          /\ WF_vars(WaitReturns(k))
          /\ SF_vars(SendSubscribe(k))
    /\ \A s \in StopCalls :
          /\ WF_vars(StreamCloseReturns(s))
          /\ WF_vars(StreamStopReturns(s))

SpecStreamFair == SpecStream /\ StreamFairness

(***************************************************************************)
(* Claims about the exit rules (checked under SpecExit)                    *)
(***************************************************************************)

\* The quantity the rules compare: P&L % with notional, absolute P&L without.
ExitMeasure(in) ==
    IF in.notional > 0 THEN (in.latest * 100 * 100) \div in.notional
    ELSE in.latest

\* The first matching rule in the order max_loss, max_profit, trailing_sl,
\* for the thresholds loss, profit and level.
FirstMatch(in, loss, profit, level) ==
    CASE loss > 0 /\ ExitMeasure(in) <= -loss -> "max_loss"
      [] ~(loss > 0 /\ ExitMeasure(in) <= -loss)
         /\ profit > 0 /\ ExitMeasure(in) >= profit -> "max_profit"
      [] ~(loss > 0 /\ ExitMeasure(in) <= -loss)
         /\ ~(profit > 0 /\ ExitMeasure(in) >= profit)
         /\ in.enabled /\ level > 0 /\ ExitMeasure(in) <= level -> "trailing_sl"
      [] OTHER -> "none"

\* How the engine reads a percentage: a value strictly between 0 and 1 (100
\* hundredths) counts as a fraction, i.e. as one hundred times that value.
ReadAsPercent(v) == IF v > 0 /\ v < 100 THEN 100 * v ELSE v

\* C5 (as stated): the evaluation returns the first matching rule in the
\* order max_loss, max_profit, trailing_sl, a rule with percentage <= 0 never
\* triggers, and a rule with any configured percentage > 0 triggers at
\* exactly that percentage.
C5_ExitAtConfiguredPercent ==
    ex_out # "unset" =>
        ex_out = FirstMatch(ex_in, ex_in.max_loss, ex_in.max_profit, ex_in.level)

\* C5 (amended): the same order and the same comparisons, except that a
\* max-loss %, max-profit % or trailing level strictly between 0 and 1 is
\* read as a fraction and triggers at one hundred times its value; values
\* >= 1 trigger at exactly that percentage and values <= 0 never trigger.
C5_ExitAtNormalizedPercent ==
    ex_out # "unset" =>
        ex_out = FirstMatch(ex_in, ReadAsPercent(ex_in.max_loss),
                            ReadAsPercent(ex_in.max_profit),
                            ReadAsPercent(ex_in.level))

\* The priority example of the specification: max_loss 5 %, max_profit 10 %,
\* trailing level 2 %, P&L -6 % gives max_loss and not trailing_sl.
C5_Witness ==
    /\ ex_in = [latest |-> -60, notional |-> 1000, max_loss |-> 500,
                max_profit |-> 1000, enabled |-> TRUE, level |-> 200]
    /\ ex_out = "max_loss"

(***************************************************************************)
(* Claims about the order strategy (checked under SpecOrder)               *)
(***************************************************************************)

\* A limit order whose attempt ended with a fill of at least the
\* partial-fill threshold and of less than the whole order.
PartialAccepted(o) ==
    /\ o.kind = "limit"
    /\ o.counted > 0
    /\ o.counted < o.size
    /\ o.counted * 100 >= PartialFillThresholdPct * o.size

\* The sum of the fills the exchange last showed the run on its orders.
RECURSIVE SumSeen(_)
SumSeen(orders) ==
    IF orders = <<>> THEN 0
    ELSE (IF Head(orders).seen = -1 THEN 0 ELSE Head(orders).seen)
         + SumSeen(Tail(orders))

C9_ReportsEveryFill ==
    os_pc = "done" => os_out.filled_size = SumSeen(os_orders)

\* C10: an outcome with mode market_fallback means that the market order was
\* seen filled for its whole size, and then the reported filled quantity is
\* the requested quantity.
C10_MarketSuccessIsWholeFill ==
    os_out.mode = "market_fallback" =>
        /\ os_orders[Len(os_orders)].kind = "market"
        /\ os_orders[Len(os_orders)].seen = os_orders[Len(os_orders)].size
        /\ os_out.filled_size = OrderQuantity


(***************************************************************************)
(* Claims about the engine (checked under Spec)                            *)
(***************************************************************************)

\* The control-loop tasks that were created and have not finished.
Alive == {k \in Sessions : tk[k].pc \notin {"unborn", "done"}}

\* Every position of session k has an exit time and an exit price.
Flat(k) ==
    \A i \in 1..Len(states[k].positions) :
        /\ states[k].positions[i].exit_time
        /\ states[k].positions[i].exit_price > 0

\* C1: at most one control-loop task is alive at any time; while a task is
\* alive no step creates a session, and a start() made then fails with
\* "already running" and leaves task, state, runtime states, client and stop
\* signal as they were.
C1_SingleControlLoop ==
    /\ [](Cardinality(Alive) <= 1)
    /\ [][Alive # {} =>
             /\ started' = started
             /\ (result'.call = "start" /\ result' # result) =>
                   /\ result'.value = "already_running"
                   /\ UNCHANGED <<task, state, states, tk, client, stop_event>>]_vars

\* A start() was refused while the task of the first session was monitoring.
C1_Witness ==
    /\ result = Result("start", "already_running", 0)
    /\ task = 1
    /\ tk[1].pc = "mon_refresh"
    /\ states[1].active

\* C2: when stop() has returned for a session, every position of the
\* session has an exit time and an exit price.
C2_StopFlattens ==
    (result.call = "stop" /\ result.value = "stopped") => Flat(result.id)

\* C3: when panic_close() has returned the strategy id, every position of
\* the session has an exit time and an exit price, the session has an exit
\* reason, and the engine holds no task, no state and no client.
C3_PanicFlattens ==
    (result.call = "panic_close" /\ result.value = "closed") =>
        /\ Flat(result.id)
        /\ states[result.id].exit_reason # ""
        /\ task = 0 /\ state = 0 /\ ~client

\* C4: no control loop is left because of an exception: a loop ends only
\* after the stop signal was set.
C4_LoopSurvivesExceptions ==
    \A k \in Sessions : tk[k].why # "exception"

\* C6: at the end of every monitoring cycle the trailing level of the
\* session is the highest stop level among the rules whose trigger is at
\* most the highest profit % seen (0 without such a rule), and within a
\* session the trailing level never decreases.
C6_TrailingLevelFollowsRules ==
    [][\A k \in Sessions :
          /\ (tk[k].pc = "mon_persist" /\ tk'[k].pc # "mon_persist") =>
                states'[tk[k].state].trailing_level =
                    applicable_level(states'[tk[k].state].max_profit_seen_pct,
                                     Config.trailing_rules)
          /\ started' = started =>
                states'[k].trailing_level >= states[k].trailing_level]_vars

\* C7: within a session the highest profit and the deepest drawdown seen,
\* absolute and in percent, never decrease.
C7_HighWaterMarksNeverDecrease ==
    [][\A k \in Sessions :
          started' = started =>
             /\ states'[k].max_profit_seen >= states[k].max_profit_seen
             /\ states'[k].max_profit_seen_pct >= states[k].max_profit_seen_pct
             /\ states'[k].max_drawdown_seen >= states[k].max_drawdown_seen
             /\ states'[k].max_drawdown_seen_pct >= states[k].max_drawdown_seen_pct]_vars



(***************************************************************************)
(* Claims about entry (C12 checked under SpecOrder, the others under       *)
(* SpecEntry)                                                              *)
(***************************************************************************)

\* The exchange has rejected a place_order call of this run with HTTP 401.
AuthRejected == \E i \in 1..Len(os_rejections) : os_rejections[i] = 401

\* C12: once the exchange has rejected an order of a live leg with an
\* authentication failure (HTTP 401), the run submits no further live order:
\* no place_order call follows the rejected one.
C12_NoLiveOrderAfterAuthFailure ==
    [][AuthRejected => os_tried' = os_tried]_vars


\* The quantity the rows of this symbol hold that the entry itself recorded.
RECURSIVE RecordedQuantity(_, _)
RecordedQuantity(rows, symbol) ==
    IF rows = <<>> THEN 0
    ELSE (IF rows[1].symbol = symbol /\ rows[1].origin \in {"live", "simulated"}
          THEN rows[1].quantity ELSE 0) + RecordedQuantity(Tail(rows), symbol)

RECURSIVE OrderedQuantity(_, _)
OrderedQuantity(rows, symbol) ==
    IF rows = <<>> THEN 0
    ELSE (IF rows[1].symbol = symbol THEN rows[1].quantity ELSE 0)
         + OrderedQuantity(Tail(rows), symbol)

\* C11: after a live entry the quantity the ledger holds for each leg, in
\* its position rows and in its order rows, is the quantity the entry's
\* orders filled on the exchange for that leg.
C11_LedgerMatchesFills ==
    (en_pc = "done" /\ en_outcomes # <<>>) =>
        \A s \in Symbols :
            /\ RecordedQuantity(en_positions, s) = en_entered[s]
            /\ OrderedQuantity(en_orders, s) = en_entered[s]

\* A leg of the entry met a failure: a place_order call raised, or the
\* outcome was not a success.
LegFailure(outcome) == outcome.rejected \/ ~outcome.success

OpenPositions(symbol) ==
    {i \in 1..Len(en_positions) : en_positions[i].symbol = symbol /\ en_positions[i].open}

\* C16: while the strategy is active the session never holds two open
\* positions for one symbol, whichever of backfill, adoption and entry
\* recorded them.
C16_OneOpenPositionPerSymbol ==
    en_active => \A symbol \in Symbols \cup {"X"} : Cardinality(OpenPositions(symbol)) <= 1


(***************************************************************************)
(* Claims about failures and timing of the engine (checked under Spec)     *)
(***************************************************************************)

\* The start() call that created session k returned its strategy id.
StartReturnedId(k) == started >= k

\* C14: an invalid configuration and an absence of eligible contracts are
\* each reported to the caller of start() as a failure, and each leaves the
\* engine idle, without task and runtime state: start() fails on an invalid
\* expiry and changes nothing, and no session whose contract selection
\* failed was reported to its caller as started.
C14_FailuresReachTheCaller ==
    /\ result = Result("start", "invalid_expiry", 0) => task = 0 /\ state = 0
    /\ \A k \in Sessions :
          tk[k].error = "no_eligible_contracts" =>
              /\ ~StartReturnedId(k)
              /\ tk[k].pc = "done" => task # k /\ state # k


(***************************************************************************)
(* Claims about the schedule (checked under SpecSchedule)                  *)
(***************************************************************************)

\* The first occurrence of a time of day at or after an instant.
NextOccurrence(t, time_of_day) ==
    IF combine(date_of(t), time_of_day) >= t
    THEN combine(date_of(t), time_of_day)
    ELSE combine(date_of(t) + 1, time_of_day)

\* C15: once the configured exit time of an entered session is reached,
\* the session is flattened: no monitoring cycle made at or after the first
\* occurrence of the exit time that follows the entry leaves the session
\* active.
C15_ExitTimeForcesExit ==
    (sc_pc = "active" /\ sc_monitored_at # -1) =>
        sc_monitored_at < NextOccurrence(sc_entered_at + 1, sc_config.exit_time)

\* C17: the scheduled entry start() computes is the next occurrence of the
\* configured entry time at or after the call, never earlier than the call,
\* and the entry is not made before it.
C17_EntryAtNextOccurrence ==
    sc_started_at # -1 =>
        /\ sc_scheduled = NextOccurrence(sc_started_at, sc_config.trade_time)
        /\ sc_scheduled >= sc_started_at
        /\ sc_entered_at # -1 => sc_entered_at >= sc_scheduled


(***************************************************************************)
(* Claims about contract selection (checked under SpecSelect)              *)
(***************************************************************************)

\* The contracts of the input inside the delta range, and the dates on
\* which both an in-range call and an in-range put expire.
InRange == filtered(sel_in.tickers)
DatesWithBoth == {c.expiry_date : c \in {d \in InRange : has_both(InRange, d.expiry_date)}}

Earliest(dates) == CHOOSE e \in dates : \A f \in dates : e <= f

\* The expiry the selection is to use: the configured one, else the
\* nearest date with both sides at or after today plus the buffer, else the
\* nearest date with both sides.
ExpectedExpiry ==
    IF sel_in.explicit # 0 THEN sel_in.explicit
    ELSE LET buffered == {d \in DatesWithBoth : d >= Today + BufferDays}
         IN IF buffered # {} THEN Earliest(buffered) ELSE Earliest(DatesWithBoth)

\* C18: the call and the put that contract selection returns expire on one
\* date, the configured expiry if there is one, else the nearest date with
\* both sides at or after today plus the buffer, else the nearest date with
\* both sides; and the selection fails when no date has both an in-range
\* call and an in-range put.
C18_OneExpiryForBothLegs ==
    sel_out.status # "unset" =>
        /\ DatesWithBoth = {} => sel_out.status = "error"
        /\ sel_out.status = "ok" =>
              /\ sel_out.call.expiry_date = sel_out.put.expiry_date
              /\ sel_out.call.expiry_date = ExpectedExpiry

\* The in-range contracts of the type and expiry of this one.
Rivals(contract) ==
    {c \in InRange : c.contract_type = contract.contract_type
                      /\ c.expiry_date = contract.expiry_date}

BestOfItsKind(contract, contract_type) ==
    /\ contract.contract_type = contract_type
    /\ SelectConfig.delta_range_low <= contract.delta
    /\ contract.delta <= SelectConfig.delta_range_high
    /\ \A c \in Rivals(contract) :
          /\ c.delta <= contract.delta
          /\ c.delta = contract.delta =>
                Abs(contract.delta - target_delta) <= Abs(c.delta - target_delta)

\* C19: each contract that contract selection returns has its absolute
\* delta inside the delta range and the highest absolute delta among the
\* in-range contracts of its type and expiry, ties going to the one nearest
\* to the midpoint of the range.
C19_HighestDeltaInRange ==
    sel_out.status = "ok" =>
        /\ BestOfItsKind(sel_out.call, "call_options")
        /\ BestOfItsKind(sel_out.put, "put_options")

\* A selection that had to choose: an in-range call and an in-range put of
\* lower delta expire on the date of the ones returned, and a call below
\* the range was listed.
C19_Witness ==
    /\ sel_out.status = "ok"
    /\ sel_out.call.expiry_date # 0
    /\ \E c \in Rivals(sel_out.call) : c.delta < sel_out.call.delta
    /\ \E p \in Rivals(sel_out.put) : p.delta < sel_out.put.delta
    /\ \E t \in sel_in.tickers : Abs(t.delta) < SelectConfig.delta_range_low


(***************************************************************************)
(* Claims about P&L (checked under SpecPnl)                                *)
(***************************************************************************)

\* The P&L the formula gives for the row of pl_in at pl_in.price with this
\* contract size: (entry - price) * quantity * size for a short,
\* (price - entry) * quantity * size for a long.
FormulaPnl(size) ==
    IF pl_in.side = "short" THEN (pl_in.entry_price - pl_in.price) * pl_in.quantity * size
    ELSE IF pl_in.side = "long" THEN (pl_in.price - pl_in.entry_price) * pl_in.quantity * size
    ELSE 0

\* C20: realized and unrealized P&L of a position are the same formula with
\* the same contract size, (entry - price) * quantity * contract size for a
\* short and (price - entry) * quantity * contract size for a long, and the
\* P&L of a short is positive exactly when the price is below the entry
\* price, whatever the sign of the stored quantity.
C20_OnePnlFormula ==
    pl_out.status = "done" =>
        /\ \E size \in PnlContractSizes \cup ExchangeContractSizes :
              /\ size > 0
              /\ pl_out.realized = FormulaPnl(size)
              /\ pl_out.unrealized = FormulaPnl(size)
        /\ pl_in.side = "short" =>
              /\ pl_out.realized > 0 <=> pl_in.price < pl_in.entry_price
              /\ pl_out.unrealized > 0 <=> pl_in.price < pl_in.entry_price


(***************************************************************************)
(* Claims about the run of the order strategy (checked under               *)
(* SpecOrderFair)                                                          *)
(***************************************************************************)

\* The orders of this kind the exchange accepted.
Submitted(kind) == {i \in 1..Len(os_orders) : os_orders[i].kind = kind}

\* At most MaxAttempts limit orders and one market order are submitted;
\* the market order comes last, after the last limit attempt, with a
\* quantity still to fill; a run that is over has an outcome.
BoundedRun ==
    /\ os_attempt \in 1..MaxAttempts
    /\ os_tried <= MaxAttempts + 1
    /\ Cardinality(Submitted("limit")) + Len(os_rejections) <= MaxAttempts + 1
    /\ Cardinality(Submitted("limit")) <= MaxAttempts
    /\ Cardinality(Submitted("market")) <= 1
    /\ (os_pc \in {"market", "mwait"} \/ Submitted("market") # {}) =>
          /\ os_attempt = MaxAttempts
          /\ os_remaining > 0
          /\ os_tried >= MaxAttempts
    /\ \A i \in Submitted("market") : i = Len(os_orders) /\ os_orders[i].size = os_remaining
    /\ os_pc = "done" <=> os_out # NoOutcome
    /\ os_out # NoOutcome => os_out.mode \in {"limit_orders", "market_fallback", "failed"}

\* C25: every run of the order strategy ends with an outcome, whichever of
\* its placements, polls and cancels fail; it submits at most MaxAttempts
\* limit orders and then at most one market order, and the market order
\* only after the last limit attempt left a quantity to fill.
C25_RunEndsWithinItsOrders == []BoundedRun /\ <>(os_pc = "done" /\ os_out # NoOutcome)

\* A run ended after every placement of a limit order had been refused and
\* the market order had been accepted.
C25_Witness ==
    /\ os_pc = "done"
    /\ Len(os_rejections) = MaxAttempts
    /\ Cardinality(Submitted("market")) = 1

(***************************************************************************)
(* Claims about the control plane (checked under Spec)                     *)
(***************************************************************************)

\* No control-loop task is running.
NoRunningTask == task = 0 \/ tk[task].pc = "done"

\* The session is in cooldown: its entry summary says so.
InCooldown == state # 0 /\ states[state].entry_status = "cooldown"

\* C21: a runtime snapshot never reports the status live while the engine
\* is idle, with no running control-loop task, or in cooldown.
C21_NeverLiveWhenIdleOrCooldown ==
    [][(RuntimeSnapshot \/ RuntimeSnapshotIdle) =>
          (result'.value = "live" => ~NoRunningTask /\ ~InCooldown)]_vars


\* The engine holds no control-loop task: no strategy was started, or the
\* last one was stopped or panic-closed.
NoStrategy == lock = "free" /\ task = 0

PanicInForceExit(id) ==
    lock = "panic" /\ op.state = id /\ op.pc \in {"fx_relationships", "fx_spot", "fx_persist"}

\* The control-loop task k is inside an entry, a monitoring cycle or its
\* own _force_exit for this session state.
TaskInCycle(k, id) ==
    /\ tk[k].state = id
    /\ tk[k].pc \in {"entry_tickers", "entry_persist", "mon_spot", "mon_refresh", "mon_persist",
                     "tfx_relationships", "tfx_spot", "tfx_persist"}

\* C26: the forced exit of panic_close() never runs while the control-loop
\* task is in the middle of an entry, of a monitoring cycle or of a forced
\* exit on the same session state: the positions and the P&L summary of a
\* session have one writer at a time.
C26_OneWriterPerSession ==
    \A k \in Sessions : \A id \in Sessions : ~(PanicInForceExit(id) /\ TaskInCycle(k, id))

(***************************************************************************)
(* Claims about the quote cache (checked under SpecQuote)                  *)
(***************************************************************************)

\* The message handled last named a symbol and was stored under it.
Stored(symbol) == qs_msg.symbol # "" /\ normalize_symbol(qs_msg.symbol) = symbol

\* The message handled last carries no mark price, no bid.
LacksMark == py_or(qs_msg.mark_price, qs_msg.fair_price) = Null
LacksBid ==
    /\ qs_msg.best_bid_price = Null
    /\ qs_msg.has_quotes => py_or(qs_msg.quotes_best_bid, Null) = Null

\* C22: the cache holds at most one quote per symbol, the one of the last
\* message for that symbol: a field that message lacks is null in the cached
\* quote, whatever the quote cached before held, and the quotes of the
\* other symbols stay as they were.
C22_QuoteReplacedWholesale ==
    \A symbol \in Symbols :
       /\ qs_quotes[symbol].symbol \in {"", symbol}
       /\ Stored(symbol) =>
             /\ qs_quotes[symbol].symbol = symbol
             /\ LacksMark => qs_quotes[symbol].mark_price = Null
             /\ LacksBid => qs_quotes[symbol].best_bid = Null
             /\ ~LacksMark => qs_quotes[symbol].mark_price \in
                                 {qs_msg.mark_price, qs_msg.fair_price}
             /\ \A other \in Symbols \ {symbol} : qs_quotes[other] = qs_prev[other]

\* A message for C without mark price and without bid arrived while the
\* cache held a quote for C with both.
C22_Witness ==
    /\ Stored("C")
    /\ LacksMark
    /\ LacksBid
    /\ qs_prev["C"].mark_price = 5
    /\ qs_prev["C"].best_bid = 5
    /\ qs_quotes["C"].mark_price = Null


(***************************************************************************)
(* Claims about the adoption of existing positions (checked under          *)
(* SpecEntry)                                                              *)
(***************************************************************************)

\* The open positions of the session for this symbol.
OpenRows(symbol) ==
    {i \in 1..Len(en_positions) : en_positions[i].symbol = symbol /\ en_positions[i].open}

\* This row holds what the exchange reports for the position raw.
Mirrors(row, raw) ==
    /\ row.quantity = (IF raw.size < 0 THEN -raw.size ELSE raw.size)
    /\ row.side = (IF raw.side \in {"sell", "short"} \/ raw.size < 0 THEN "short" ELSE "long")
    /\ raw.entry_price > 0 => row.entry_price = raw.entry_price

\* The session holds exactly one open position for every exchange position
\* of non-zero size, with what the exchange reports, and no other open
\* position; it is live and no order was placed for it.
AdoptedState ==
    /\ en_entered = [s \in Symbols |-> 0]
    /\ en_outcomes = <<>>
    /\ en_live_orders = <<>>
    /\ en_active
    /\ en_summary.status = "live"
    /\ \A k \in 1..Len(en_exchange) :
          en_exchange[k].size # 0 =>
             /\ Cardinality(OpenRows(en_exchange[k].symbol)) = 1
             /\ \A i \in OpenRows(en_exchange[k].symbol) :
                   Mirrors(en_positions[i], en_exchange[k])
    /\ \A i \in 1..Len(en_positions) :
          en_positions[i].open =>
             \E k \in 1..Len(en_exchange) :
                en_exchange[k].size # 0 /\ en_exchange[k].symbol = en_positions[i].symbol

\* C23: when the entry detects positions on the exchange it places no order
\* and adopts them: the session then holds exactly one open position for
\* every exchange position of non-zero size, with the quantity, side and
\* entry price the exchange reports, no other open position, and it is live.
C23_ExistingPositionsAdopted ==
    [][PositionsDetected => AdoptedState' /\ en_orders' = en_orders]_vars

\* Positions that control("start") had imported, reported with a negative
\* size and no side next to a closed position, were adopted.
C23_Witness ==
    /\ en_pc = "done"
    /\ AdoptedState
    /\ Len(en_exchange) = 2
    /\ \E i \in 1..Len(en_positions) :
          /\ en_positions[i].origin = "backfill"
          /\ en_positions[i].side = "short"
          /\ en_positions[i].quantity = OrderQuantity


(***************************************************************************)
(* Claims about the forced exit (checked under SpecForceExit)              *)
(***************************************************************************)

\* The last mark known for a position, its entry price if there is none.
LastKnownMark(position) == IF position.mark > 0 THEN position.mark ELSE position.entry_price

\* C27: in a session whose effective mode is simulation, configured or
\* downgraded, the forced exit sends no order to the exchange and closes
\* every position at its last known mark.
C27_SimulatedExitPlacesNoOrder ==
    fe_cfg.mode = "simulation" =>
        /\ fe_submitted = {}
        /\ fe_pc = "done" =>
              \A i \in 1..Len(fe_positions) :
                 /\ fe_positions[i].exit_time # 0
                 /\ fe_positions[i].exit_price = LastKnownMark(fe_positions[i])

\* The closing order of this symbol was filled.
ActuallyClosed(symbol) ==
    \E i \in 1..Len(fe_closings) :
       fe_closings[i].symbol = symbol /\ successful_close(fe_closings[i])

\* C28: in a live session a closing order that fails on some leg does not
\* keep the forced exit from finalizing the session, and only the
\* positions whose closing order was filled are given an exit time.
C28_FailedCloseNotRecordedClosed ==
    (fe_cfg.mode = "live" /\ fe_pc = "done") =>
        /\ fe_status = "stopped"
        /\ \A i \in 1..Len(fe_positions) :
              fe_positions[i].exit_time # 0 => ActuallyClosed(fe_positions[i].symbol)


(***************************************************************************)
(* Claims about the valuation of positions (checked under SpecValue)       *)
(***************************************************************************)

\* The stream has no usable quote for the position: it holds no mark for
\* it, or it is flagged stale.
NoUsableQuote == ~vl_in.has_quote \/ vl_in.quote_mark = Null \/ vl_in.stale

\* C29: in a live session, whenever the stream has no usable quote for an
\* open position, the monitoring cycle asks the exchange for the ticker
\* over REST before it values the position.
C29_RestBeforeStoredMark ==
    (vl_out.status = "valued" /\ vl_in.mode = "live" /\ vl_in.open /\ NoUsableQuote)
        => vl_out.rest_called

(***************************************************************************)
(* Claims about tick rounding (checked under SpecRound)                    *)
(***************************************************************************)

\* The multiple of tick nearest to price, the upper one of two equally near.
NearestMultiple(price, tick) == ((2 * price + tick) \div (2 * tick)) * tick

\* C30: for every positive price and tick the rounded price is the multiple
\* of the tick nearest to the price, ties upward; it is a whole multiple of
\* the tick; and rounding it again gives it back.
C30_RoundsToNearestTick ==
    (rd_out # Null /\ rd_in.tick_size > 0) =>
        /\ rd_out = NearestMultiple(rd_in.candidate, rd_in.tick_size)
        /\ rd_out % rd_in.tick_size = 0
        /\ normalize_price(rd_out, rd_in.tick_size) = rd_out


(***************************************************************************)
(* Claims about live sessions (checked under SpecEntry)                    *)
(***************************************************************************)

\* C40: whenever the entry has marked the session active, the session holds
\* at least one open position; a failure to fetch the positions of the
\* exchange does not leave a live session without positions and orders.
C40_LiveSessionHasPosition ==
    en_active => \E i \in 1..Len(en_positions) : en_positions[i].open


(***************************************************************************)
(* Claims about panic_close and runtime_snapshot (checked under Spec)      *)
(***************************************************************************)

\* panic_close() has begun on the session the engine holds and has not
\* returned.
PanicUnderWay == lock = "panic" /\ op.state = state /\ state # 0

\* C36: once panic_close() has begun on a session, the control-loop task
\* starts no entry for that session, whatever the interleaving of the two.
C36_NoEntryDuringPanic ==
    [][\A k \in Sessions : BeginEntry(k) => ~PanicUnderWay]_vars

\* C37: panic_close() called on an active session returns the strategy id
\* and never raises, also when the control-loop task finishes on its own
\* while the forced exit of panic_close() is in progress.
C37_PanicReturnsStrategyId ==
    result.call = "panic_close" => result.value \in {"noop", "closed"}

\* The fields of a session state that the exit decision reads.
ExitFields(s) ==
    <<s.trailing_level, s.max_profit_seen, s.max_profit_seen_pct,
      s.max_drawdown_seen, s.max_drawdown_seen_pct, s.portfolio_notional>>

\* C39: runtime_snapshot() reads the state of the running session without
\* changing it: the trailing level, the highest profit and the deepest
\* drawdown seen, in amount and in percent, and the portfolio notional are
\* after the call what they were before.
C39_SnapshotIsPureRead ==
    [][RuntimeSnapshot => ExitFields(states'[state]) = ExitFields(states[state])]_vars


(***************************************************************************)
(* Claims about the exposure of a run of the order strategy (checked under *)
(* SpecOrder)                                                              *)
(***************************************************************************)

\* The quantity still resting on the exchange in the first n orders of the
\* run: the unfilled part of every order that is open.
RECURSIVE Resting(_)
Resting(n) ==
    IF n = 0 THEN 0
    ELSE Resting(n - 1) + (IF os_orders[n].st = "open"
                           THEN os_orders[n].size - os_orders[n].filled ELSE 0)

\* C35: at every moment of a run the quantity resting on the exchange in
\* the orders of the run plus the quantity the run has counted as filled is
\* at most the quantity requested: a new order is placed only when the
\* previous one is fully filled or cancelled.
C35_ExposureWithinRequest ==
    Resting(Len(os_orders)) + os_total <= OrderQuantity


(***************************************************************************)
(* Claims about the limit price of an attempt (checked under SpecLimit)    *)
(***************************************************************************)

Quoted(p) == p # Null /\ p > 0

OneTick == IF lp_in.tick_size > 0 THEN lp_in.tick_size ELSE 100

\* The price the rule of the quotes gives, Null when it gives none.
QuotedPrice ==
    IF lp_in.side = "buy"
    THEN IF Quoted(lp_in.best_ask) THEN lp_in.best_ask
         ELSE IF Quoted(lp_in.best_bid) THEN lp_in.best_bid + OneTick ELSE Null
    ELSE IF Quoted(lp_in.best_bid) THEN lp_in.best_bid
         ELSE IF Quoted(lp_in.best_ask)
              THEN (IF lp_in.best_ask - OneTick >= OneTick THEN lp_in.best_ask - OneTick ELSE OneTick)
         ELSE Null

\* The price of an attempt follows the rule of the quotes, with the mid
\* price and then one tick behind it.
FollowsQuotes ==
    lp_out.candidate = IF QuotedPrice # Null /\ QuotedPrice > 0 THEN QuotedPrice
                       ELSE IF lp_in.mid_price > 0 THEN lp_in.mid_price ELSE OneTick

\* C31: the limit price of an attempt is the best ask for a buy (best bid
\* plus one tick without an ask), the best bid for a sell (best ask less one
\* tick, at least one tick, without a bid), the mid price and then one tick
\* when neither side is quoted; the price submitted is always above zero.
C31_LimitPriceFollowsQuotesAndIsPositive ==
    lp_out.status = "priced" => FollowsQuotes /\ lp_out.limit_price > 0


(***************************************************************************)
(* Claims about the price stream (checked under SpecStream, and under      *)
(* SpecStreamFair where something must eventually happen)                  *)
(***************************************************************************)

\* The delay due before a reconnect after so many consecutive failures:
\* 1, 2, 4, 8, 16 and then 30 seconds; 1 second after a connection that
\* had been made.
ExpectedDelay(failures) ==
    IF failures <= 1 THEN 1 ELSE Min(2 ^ (failures - 1), MaxBackoff)

Reconnecting(k) == ws_runs[k].pc = "connecting" /\ ws_runs[k].ended \in {"failed", "lost"}

\* C32: before every reconnect attempt after a lost or failed connection,
\* a connection closed normally by the server included, the loop has waited
\* the backoff delay: 1 second at first, doubled after each consecutive
\* failure, never above 30 seconds, and 1 second again after a connect
\* that succeeded.
C32_WaitsBeforeEveryReconnect ==
    \A k \in Tasks : Reconnecting(k) => ws_runs[k].waited = ExpectedDelay(ws_runs[k].failures)

ConnOpen(k) == ws_runs[k].pc \in {"wait", "subscribe"} /\ ws_runs[k].open

\* The last subscribe message sent on the connection carries the current set.
ToldCurrentSet(k) == ws_runs[k].sent # {} /\ ws_runs[k].sent = ws_subscriptions

\* C33: when the symbol set changes while a connection is open, a subscribe
\* message carrying exactly the current set is eventually sent on that
\* connection, unless the connection ends first; this for every new set,
\* the empty set included.
C33_NewSetIsSentOnOpenConnection ==
    \A k \in Tasks :
        (ConnOpen(k) /\ ws_subscription_event) ~> ((ConnOpen(k) /\ ToldCurrentSet(k)) \/ ~ConnOpen(k))

\* stop() has returned and nothing was started since.
StopReturned ==
    /\ \E s \in StopCalls : ws_stops[s].pc = "returned"
    /\ \A s \in StopCalls : ws_stops[s].pc \in {"idle", "returned"}
    /\ ws_task = 0

\* C34: after stop() has returned, the background task has ended and the
\* subscription set, the quote cache, the stale flag and the last-quote time
\* are cleared, whatever message was being handled while stop() ran.
C34_StoppedStreamIsCleared ==
    StopReturned =>
        /\ \A k \in Tasks : ~RunAlive(k)
        /\ ws_subscriptions = {}
        /\ ws_latest_quotes = {}
        /\ ~ws_stale_alert_active
        /\ ~ws_last_quote_at

OneLoopTask == Cardinality({k \in Tasks : RunAlive(k)}) <= 1

\* C38: at most one task of the reconnect loop exists at any time, and
\* every call of stop() eventually returns.
C38_OneTaskAndStopReturns ==
    /\ []OneLoopTask
    /\ \A s \in StopCalls : (ws_stops[s].pc \in {"closing", "awaiting"}) ~> (ws_stops[s].pc = "returned")

=============================================================================
